---- MODULE Spec2Model ----
(***************************************************************************)
(* A model of the literature discovery engine of Research-Assistant:       *)
(*   - the deduplicator, the relevance validator and the federation /      *)
(*     quality-assurance orchestrator of src/literature_agent.py,          *)
(*   - the FAISS vector store of src/src/agents/embedding_agent.py (and    *)
(*     its older copy src/embedding_agent.py),                             *)
(*   - the controller's SavePapers of src/src/agents/control_agent.py.     *)
(*                                                                         *)
(* Text is modelled at word level.  A word is a pair <<stem, form>>: the   *)
(* stem is the word's lower-case alphanumeric content (0: none, the word   *)
(* is pure punctuation such as "--"), the form says how it is written:     *)
(* "l" lower case ("deep"), "U" capitalised ("Deep"), "p" lower case with  *)
(* punctuation attached ("deep:").  A title is a sequence of words.        *)
(* Scores are integers in units of 1/Unit.                                 *)
(***************************************************************************)
EXTENDS Integers, Sequences, FiniteSets, TLC

VARIABLES
    \* ---- deduplicator harness (_advanced_deduplication as a pure function)
    dd_pc, dd_in, dd_out, dd_out2,
    \* ---- validator harness (validate_paper_async on one paper)
    v_pc, v_paper, v_query, v_llm, v_result,
    \* ---- vector store: FAISSVectorDatabase in memory, its two files on disk
    variant,          \* which copy of embedding_agent.py runs: "agents" | "root"
    proc,             \* "up" | "down" (the process stopped) | "off"
    index,            \* self.index: [present, rows]; present = FALSE is None
    papers_metadata,  \* self.papers_metadata: paper_id -> metadata
    paper_ids,        \* self.paper_ids
    disk_index,       \* <db_path>.index: [state, rows]
    disk_meta,        \* <db_path>_metadata.pkl: [state, metadata, paper_ids]
    last_call,        \* the last store operation and its arguments (history)
    \* ---- one request to search_papers_async / search_papers
    pc,                   \* "fanout" | "qa" | "done" ("off": no request)
    s_query, s_filters,   \* the arguments; s_filters is the dict passed in
    search_filters,       \* the SearchFilters built from s_filters
    s_max_results,
    in_flight,            \* the source whose call is awaited ("none": no call)
    returned,             \* what each source called so far gave (history)
    all_papers, source_stats,
    papers_to_validate, processed_papers, all_validated_papers, validation_round,
    llm_calls,            \* number of validate_paper_async calls so far
    pre_sort,             \* the list handed to the final sorted()
    result,               \* validated_papers
    s_outcome,              \* "running" | "returned" | "raised_..."
    \* ---- augmenter harness (_generate_augmented_query as a pure function)
    aug_pc, aug_in, aug_out,
    \* ---- one session of EnhancedResearchPipeline
    sess_pc,                  \* "up" ("off": no session)
    mock_found,               \* the mocked search layer: query -> records found
    current_session_papers, all_found_papers,
    uuid_next,                \* the uuid4 values drawn so far
    sess_log,                 \* the searches of the session, with what they returned
    \* ---- concurrent callers of validate_paper_async on one gemini_semaphore
    g_pc,                     \* caller -> "idle" | "sleeping" | "calling" | "returned"
    g_sem,                    \* the value of the semaphore
    g_trace,                  \* caller -> what it did so far (history)
    \* ---- one call of find_similar_papers_async
    fs_pc,                    \* "call" | "probing" | "done" ("off": no call)
    fs_selected, fs_k,        \* the arguments selected_papers, max_results
    fs_queries,               \* similarity_queries
    fs_all,                   \* all_similar_papers
    fs_probes,                \* what each probe search gave so far (history)
    fs_result,
    \* ---- two threads in add_papers_batch of one FAISSVectorDatabase
    ins_pc,                   \* caller -> "loop" | "add" | "done"
    ins_papers,               \* caller -> the papers its loop has not reached
    ins_embeddings,           \* caller -> embeddings_to_add (the paper of each)
    ins_paper_ids,            \* self.paper_ids
    ins_metadata,             \* the keys of self.papers_metadata
    ins_rows,                 \* the rows of self.index (the paper of each)
    ins_disk                  \* what save_database wrote last

ddVars == <<dd_pc, dd_in, dd_out, dd_out2>>
valVars == <<v_pc, v_paper, v_query, v_llm, v_result>>
storeVars == <<variant, proc, index, papers_metadata, paper_ids, disk_index,
               disk_meta, last_call>>
searchVars == <<pc, s_query, s_filters, search_filters, s_max_results, in_flight, returned, all_papers,
                source_stats, papers_to_validate, processed_papers,
                all_validated_papers, validation_round, llm_calls, pre_sort, result,
                s_outcome>>
augVars == <<aug_pc, aug_in, aug_out>>
sessVars == <<sess_pc, mock_found, current_session_papers, all_found_papers,
              uuid_next, sess_log>>
gemVars == <<g_pc, g_sem, g_trace>>
simVars == <<fs_pc, fs_selected, fs_k, fs_queries, fs_all, fs_probes, fs_result>>
insVars == <<ins_pc, ins_papers, ins_embeddings, ins_paper_ids, ins_metadata,
             ins_rows, ins_disk>>
vars == <<dd_pc, dd_in, dd_out, dd_out2, v_pc, v_paper, v_query, v_llm, v_result,
          variant, proc, index, papers_metadata, paper_ids, disk_index,
          disk_meta, last_call,
          pc, s_query, s_filters, search_filters, s_max_results, in_flight, returned, all_papers,
          source_stats, papers_to_validate, processed_papers,
          all_validated_papers, validation_round, llm_calls, pre_sort, result,
          s_outcome,
          aug_pc, aug_in, aug_out,
          sess_pc, mock_found, current_session_papers, all_found_papers,
          uuid_next, sess_log,
          g_pc, g_sem, g_trace,
          fs_pc, fs_selected, fs_k, fs_queries, fs_all, fs_probes, fs_result,
          ins_pc, ins_papers, ins_embeddings, ins_paper_ids, ins_metadata,
          ins_rows, ins_disk>>

-----------------------------------------------------------------------------
(* Bounds of the model *)

\* largest citation count a source record carries
MaxCit == 1
\* longest paper list handed to the deduplicator harness
MaxInput == 3
\* longest batch handed to the vector store in one call
MaxBatch == 2
\* the store is driven until paper_ids holds this many entries
MaxRows == 2
\* largest max_results of a search request
MaxResults == 3
\* longest response of a source's API
MaxApiItems == 2

-----------------------------------------------------------------------------
(* Sequence helpers *)

Range(s) == {s[i] : i \in 1..Len(s)}

RemoveAt(s, i) == [j \in 1..(Len(s) - 1) |-> IF j < i THEN s[j] ELSE s[j + 1]]

Min2(a, b) == IF a <= b THEN a ELSE b

Max2(a, b) == IF a >= b THEN a ELSE b

\* a slice that cuts nothing
TakeAll(s, n) == s

\* s[:n]
Take(s, n) == SubSeq(s, 1, Min2(Max2(n, 0), Len(s)))

RECURSIVE Concat(_)
Concat(ss) == IF ss = <<>> THEN <<>> ELSE Head(ss) \o Concat(Tail(ss))

SeqsUpTo(S, n) == UNION {[1..k -> S] : k \in 0..n}

-----------------------------------------------------------------------------
(* Text: titles, DOIs, URLs *)

\* titles of six and seven words that differ in one word from the middle one
T6a == <<<<1,"l">>, <<2,"l">>, <<3,"l">>, <<4,"l">>, <<5,"l">>, <<6,"l">>>>
T7  == <<<<1,"l">>, <<2,"l">>, <<3,"l">>, <<4,"l">>, <<5,"l">>, <<6,"l">>, <<7,"l">>>>
T6b == <<<<2,"l">>, <<3,"l">>, <<4,"l">>, <<5,"l">>, <<6,"l">>, <<7,"l">>>>
\* a short title, and the same title capitalised and followed by a dash
TS  == <<<<8,"l">>, <<9,"l">>>>
TSd == <<<<8,"U">>, <<9,"p">>, <<0,"p">>>>
\* another short title, and a title that is punctuation only ("???")
TX  == <<<<9,"l">>, <<1,"l">>>>
TP  == <<<<0,"p">>>>

\* str.lower() on the identifiers of the model
Lower(s) ==
    CASE s = "10.1/ABC" -> "10.1/abc"
      [] s = "HTTP://U/1" -> "http://u/1"
      [] OTHER -> s

\* _normalize_title: lower-case, strip everything but [a-zA-Z0-9\s], collapse
\* whitespace: what is left of each word is its stem, and a word with no
\* alphanumeric character disappears.
RECURSIVE NormalizeTitle(_)
NormalizeTitle(title) ==
    IF title = <<>> THEN <<>>
    ELSE IF Head(title)[1] = 0 THEN NormalizeTitle(Tail(title))
         ELSE <<Head(title)[1]>> \o NormalizeTitle(Tail(title))

\* set(self._normalize_title(t).split())
NormTokens(title) == Range(NormalizeTitle(title))

\* the similarity threshold of _titles_are_similar, in percent
JaccardThresholdPct == 85

JaccardAtLeast(a, b, pct) ==
    100 * Cardinality(a \cap b) >= pct * Cardinality(a \cup b)

\* _titles_are_similar(title1, title2, threshold=0.85)
TitlesAreSimilar(t1, t2) ==
    LET norm1 == NormTokens(t1)
        norm2 == NormTokens(t2)
    IN  IF norm1 = {} \/ norm2 = {} THEN FALSE
        ELSE JaccardAtLeast(norm1, norm2, JaccardThresholdPct)

-----------------------------------------------------------------------------
(* Deduplicator: GeminiLiteratureDiscoveryAgent._advanced_deduplication *)

\* index of the first paper of unique whose title is similar to title, 0 if none
FirstSimilar(unique, title) ==
    LET hits == {i \in 1..Len(unique) : TitlesAreSimilar(title, unique[i].title)}
    IN  IF hits = {} THEN 0 ELSE CHOOSE i \in hits : \A j \in hits : i <= j

\* the replacement test of the title branch
ReplacesExisting(paper, existing) ==
    \/ paper.cit > existing.cit
    \/ (paper.source = "google_scholar" /\ existing.source = "arxiv")

\* the signatures a kept paper adds to seen_signatures.  The title signature is
\* kept apart from the identifier strings: a normalized title holds no '.', '/'
\* or ':' and so never equals a DOI or a URL of the model.
Signatures(paper) ==
    {<<"title", NormalizeTitle(paper.title)>>}
      \cup (IF paper.doi # "" THEN {<<"id", Lower(paper.doi)>>} ELSE {})
      \cup (IF paper.url # "" THEN {<<"id", Lower(paper.url)>>} ELSE {})

\* one iteration of the loop over papers; st = [unique, seen]
DedupStep(st, paper) ==
    IF paper.doi # "" /\ <<"id", Lower(paper.doi)>> \in st.seen THEN st
    ELSE IF paper.url # "" /\ <<"id", Lower(paper.url)>> \in st.seen THEN st
    ELSE LET i == FirstSimilar(st.unique, paper.title)
         IN  IF i = 0
             THEN [unique |-> Append(st.unique, paper),
                   seen |-> st.seen \cup Signatures(paper)]
             ELSE IF ReplacesExisting(paper, st.unique[i])
                  THEN [unique |-> Append(RemoveAt(st.unique, i), paper),
                        seen |-> st.seen \cup Signatures(paper)]
                  ELSE st

RECURSIVE DedupLoop(_, _)
DedupLoop(st, papers) ==
    IF papers = <<>> THEN st
    ELSE DedupLoop(DedupStep(st, Head(papers)), Tail(papers))

AdvancedDeduplication(papers) ==
    DedupLoop([unique |-> <<>>, seen |-> {}], papers).unique

\* the duplicate relation of the specification's section 4.2
SameDoi(p, q) == p.doi # "" /\ q.doi # "" /\ Lower(p.doi) = Lower(q.doi)

SameUrl(p, q) == p.url # "" /\ q.url # "" /\ Lower(p.url) = Lower(q.url)

IsDuplicate(p, q) ==
    SameDoi(p, q) \/ SameUrl(p, q) \/ TitlesAreSimilar(p.title, q.title)

NoDuplicates(ps) ==
    \A i, j \in 1..Len(ps) : i < j => ~IsDuplicate(ps[i], ps[j])

-----------------------------------------------------------------------------
(* Relevance validator: GeminiRelevanceValidator *)

\* scores are integers in units of 1/Unit; Unit is a multiple of 1000 and of
\* every query length up to 6, so that the fallback formula is exact
Unit == 12 * 1000

Tenths(n) == (n * Unit) \div 10

\* str.lower() on a word: capitals only, attached punctuation stays
LowerWord(w) == <<w[1], IF w[2] = "U" THEN "l" ELSE w[2]>>

\* set(text.lower().split())
LowerWords(text) == {LowerWord(w) : w \in Range(text)}

\* whether a lower-case term (a stem) occurs in text.lower() as a substring
ContainsTerm(text, stem) == \E w \in Range(text) : w[1] = stem

\* the stems that belong to ml_keywords ('transformer', 'attention', 'bert', ...)
MLStems == {1, 2, 3, 4}

\* abstract.lower().split()[:100]
AbstractWordLimit == 100

\* The LLM's answer is a sequence of tokens: <<"num", v>> an unsigned decimal
\* literal of value v/Unit, <<"-">> a minus sign, <<"txt">> text without digits
\* (it may hold '/', ':' ...), <<"nan">> the text "nan".
\* a parse result: [kind |-> "num", val |-> v], or a kind without a value
NoScore == [kind |-> "None", val |-> 0]

Num(v) == [kind |-> "num", val |-> v]

\* float(content_clean): a number, nan, or ValueError
DirectFloat(content) ==
    IF Len(content) = 1 /\ content[1][1] = "num" THEN Num(content[1][2])
    ELSE IF Len(content) = 2 /\ content[1][1] = "-" /\ content[2][1] = "num"
         THEN Num(0 - content[2][2])
    ELSE IF Len(content) = 1 /\ content[1][1] = "nan" THEN [kind |-> "nan", val |-> 0]
    ELSE [kind |-> "ValueError", val |-> 0]

\* re.search(r'([0-9]*\.?[0-9]+)', content_clean): the first digit run, sign
\* not included; NoScore when there is none
FirstNumber(content) ==
    LET hits == {i \in 1..Len(content) : content[i][1] = "num"}
    IN  IF hits = {} THEN NoScore
        ELSE Num(content[CHOOSE i \in hits : \A j \in hits : i <= j][2])

\* 0.0 <= parsed_score <= 1.0 (false of nan)
ScoreInRange(x) == x.kind = "num" /\ 0 <= x.val /\ x.val <= Unit

\* the two parsing attempts of validate_paper_async; NoScore when both fail
ParseScore(content) ==
    LET direct == DirectFloat(content)
    IN  IF ScoreInRange(direct) THEN direct
        ELSE LET m == FirstNumber(content)
             IN  IF ScoreInRange(m) THEN m ELSE NoScore

\* a RelevanceScore model that declares no bounds on its two scores
UnboundedRelevanceScore(rel, conf) == TRUE

\* the field constraints of the pydantic model RelevanceScore (ge=0.0, le=1.0):
\* constructing a RelevanceScore outside them raises ValidationError
ValidRelevanceScore(rel, conf) ==
    /\ 0 <= rel /\ rel <= Unit
    /\ 0 <= conf /\ conf <= Unit

\* the RelevanceScore built from a parsed number
ParsedAssessment(score, query) ==
    [relevance_score |-> score,
     confidence_score |-> IF score > Tenths(3) THEN Tenths(8) ELSE Tenths(5),
     reasoning |-> "AI analysis",
     key_matches |-> {query},
     concerns |-> IF score > Tenths(5) THEN <<>> ELSE <<"Lower confidence due to limited matches">>,
     via |-> "parsed"]

EmergencyFallback ==
    [relevance_score |-> Tenths(6),
     confidence_score |-> Tenths(3),
     reasoning |-> "Emergency fallback",
     key_matches |-> {},
     concerns |-> <<"Multiple evaluation errors occurred">>,
     via |-> "emergency"]

\* final_score of _fallback_scoring
FallbackFinalScore(paper, query) ==
    LET query_words == LowerWords(query)
        title_words == LowerWords(paper.title)
        abstract_words == LowerWords(Take(paper.abstract, AbstractWordLimit))
        keyword_words == LowerWords(paper.keywords)
        content_text == paper.title \o paper.abstract \o paper.keywords
        hits == Cardinality({s \in MLStems : ContainsTerm(content_text, s)})
        ml_context_boost == Min2(hits * Tenths(1), Tenths(3))
        qn == Max2(Cardinality(query_words), 1)
        base_score == (5 * Unit * Cardinality(query_words \cap title_words)) \div (10 * qn)
                    + (3 * Unit * Cardinality(query_words \cap abstract_words)) \div (10 * qn)
                    + (2 * Unit * Cardinality(query_words \cap keyword_words)) \div (10 * qn)
        citation_boost == Min2(Tenths(1), (paper.cit * Unit) \div 1000)
        final_score == Min2(base_score + ml_context_boost + citation_boost, Unit)
    IN  IF final_score > Tenths(1) THEN Max2(final_score, Tenths(4)) ELSE final_score

\* _fallback_scoring: the RelevanceScore it builds, or the emergency one when
\* building it raises
FallbackScoring(paper, query) ==
    LET final_score == FallbackFinalScore(paper, query)
        matched_terms == LowerWords(query) \cap (LowerWords(paper.title) \cup LowerWords(paper.keywords))
        confidence == IF matched_terms # {} THEN Tenths(7) ELSE Tenths(4)
    IN  IF ValidRelevanceScore(final_score, confidence)
        THEN [relevance_score |-> final_score,
              confidence_score |-> confidence,
              reasoning |-> "Enhanced relevance analysis",
              key_matches |-> IF Cardinality(matched_terms) <= 5 THEN matched_terms
                              ELSE CHOOSE S \in SUBSET matched_terms : Cardinality(S) = 5,
              concerns |-> IF final_score > Tenths(5) THEN <<>>
                           ELSE <<"Lower confidence due to limited direct matches">>,
              via |-> "fallback"]
        ELSE EmergencyFallback

\* validate_paper_async for one LLM outcome: a response with content, a
\* response whose content is no string, or an exception out of llm.invoke (a
\* transport error or a timeout)
ValidatePaper(paper, query, llm) ==
    IF llm.kind = "response"
    THEN LET parsed_score == ParseScore(llm.content)
         IN  IF parsed_score # NoScore /\ ValidRelevanceScore(parsed_score.val, Tenths(8))
             THEN ParsedAssessment(parsed_score.val, query)
             ELSE FallbackScoring(paper, query)
    ELSE FallbackScoring(paper, query)

-----------------------------------------------------------------------------
(* Search filters and source adapters: SearchFilters, GeminiPaperScraper *)

\* an Optional[int] field that is None
None == 0 - 1

YearMin == 1900

YearMax == 2030

\* SearchFilters(): the defaults of the fields the adapters read
DefaultFilters ==
    [year_start |-> None, year_end |-> None, min_citations |-> 0,
     max_citations |-> None, keyword_requirements |-> {}, exclude_keywords |-> {}]

\* the field constraints and the year_end validator of SearchFilters
ValidFilters(f) ==
    /\ f.year_start = None \/ (YearMin <= f.year_start /\ f.year_start <= YearMax)
    /\ f.year_end = None \/ (YearMin <= f.year_end /\ f.year_end <= YearMax)
    /\ f.min_citations >= 0
    /\ f.max_citations = None \/ f.max_citations >= 0
    /\ (f.year_end # None /\ f.year_start # None) => f.year_end >= f.year_start

\* the first lines of search_papers_async: invalid filters give the defaults
ParseFilters(f) == IF ValidFilters(f) THEN f ELSE DefaultFilters

\* "if filters.min_citations and citation_count < filters.min_citations"
BelowMinCitations(cit, f) == f.min_citations # 0 /\ cit < f.min_citations

\* "if filters.max_citations and citation_count > filters.max_citations"
AboveMaxCitations(cit, f) ==
    f.max_citations # None /\ f.max_citations # 0 /\ cit > f.max_citations

\* the keyword checks every adapter makes on f"{title} {abstract}".lower():
\* a record passes if ANY required keyword and no excluded keyword occurs
PassesKeywordFilters(item, f) ==
    LET full_text == item.title \o item.abstract
    IN  /\ f.keyword_requirements # {}
             => \E req \in f.keyword_requirements : ContainsTerm(full_text, req)
        /\ f.exclude_keywords # {}
             => ~\E excl \in f.exclude_keywords : ContainsTerm(full_text, excl)

\* _extract_advanced_keywords(title + ' ' + abstract): the words of the model
\* are content words, the keywords are their lower-case letters
RECURSIVE ExtractAdvancedKeywords(_)
ExtractAdvancedKeywords(text) ==
    IF text = <<>> THEN <<>>
    ELSE IF Head(text)[1] = 0 THEN ExtractAdvancedKeywords(Tail(text))
         ELSE <<<<Head(text)[1], "l">>>> \o ExtractAdvancedKeywords(Tail(text))

\* the Paper an adapter builds from a record of its API
MakePaper(item, source, cit, doi) ==
    [title |-> item.title, abstract |-> item.abstract, year |-> item.year,
     cit |-> cit, doi |-> doi, url |-> item.url, source |-> source,
     keywords |-> ExtractAdvancedKeywords(item.title \o item.abstract),
     relevance_score |-> 0, confidence_score |-> 0]

\* the per-record test of each adapter.  None of them looks at the year of a
\* record; search_arxiv_api and search_google_scholar_serpapi have no
\* max_citations test; search_arxiv_api sets citation_count to 0 first.
KeepsRecord(source, item, f) ==
    CASE source = "google_scholar_serpapi" ->
            ~BelowMinCitations(item.cit, f) /\ PassesKeywordFilters(item, f)
      [] source = "arxiv" ->
            ~BelowMinCitations(0, f) /\ PassesKeywordFilters(item, f)
      [] OTHER ->
            /\ ~BelowMinCitations(item.cit, f)
            /\ ~AboveMaxCitations(item.cit, f)
            /\ PassesKeywordFilters(item, f)

AdapterPaper(source, item) ==
    CASE source = "google_scholar_serpapi" -> MakePaper(item, source, item.cit, "")
      [] source = "arxiv" -> MakePaper(item, source, 0, item.doi)
      [] OTHER -> MakePaper(item, source, item.cit, item.doi)

\* the loop of an adapter over the records of the response: it keeps the
\* records that pass and stops when it has max_results papers
RECURSIVE AdapterLoop(_, _, _, _, _)
AdapterLoop(source, items, f, max_results, papers) ==
    IF items = <<>> THEN papers
    ELSE IF KeepsRecord(source, Head(items), f)
         THEN LET papers1 == Append(papers, AdapterPaper(source, Head(items)))
              IN  IF Len(papers1) >= max_results THEN papers1
                  ELSE AdapterLoop(source, Tail(items), f, max_results, papers1)
         ELSE AdapterLoop(source, Tail(items), f, max_results, papers)

\* search_<source>(query, filters, max_results) for a response of the API
SearchSourceAdapter(source, items, f, max_results) ==
    AdapterLoop(source, items, f, max_results, <<>>)

\* what the network does to the HTTP request of an adapter call, the same
\* for every attempt of the call: an answer, a transient failure (connection
\* error, timeout, 5xx), a permanent one (4xx)
NetFates == {"ok", "transient", "permanent"}

\* requests.get(...) and response.raise_for_status() raise a
\* requests.RequestException when the request fails
RequestRaises(net) == net # "ok"

\* every adapter wraps its body in "try: ... except Exception as e:
\* logger.error(...)" and ends with "return papers"
CaughtInBody(source) == TRUE

\* whether a call of the decorated function raises, as the decorator sees it
SearchFuncRaises(source, net) == RequestRaises(net) /\ ~CaughtInBody(source)

\* stop=stop_after_attempt(n) of the @retry of each adapter
StopAfterAttempt(source) ==
    CASE source \in {"crossref", "openalex"} -> 3
      [] OTHER -> 2

\* @retry(stop=..., retry=retry_if_exception_type((requests.RequestException,
\* ConnectionError))): the number of calls of the function it makes
RECURSIVE RetryLoop(_, _, _)
RetryLoop(source, net, attempt) ==
    IF SearchFuncRaises(source, net) /\ attempt < StopAfterAttempt(source)
    THEN RetryLoop(source, net, attempt + 1)
    ELSE attempt

\* the HTTP requests one call of search_<source> issues
Requests(source, net) == RetryLoop(source, net, 1)

\* the papers one call of search_<source> returns
SearchSourceCall(source, net, items, f, max_results) ==
    IF net = "ok" THEN SearchSourceAdapter(source, items, f, max_results) ELSE <<>>

\* the sources of search_papers_async, in the order it calls them
Sources == <<"google_scholar_serpapi", "crossref", "openalex", "arxiv">>

\* papers_per_source
PapersPerSource(max_results) ==
    IF max_results <= 4 THEN 1 ELSE (max_results \div 4) + 3

-----------------------------------------------------------------------------
(* Orchestrator: GeminiLiteratureDiscoveryAgent.search_papers_async *)

\* a comparison that looks at the first component only
FirstGreater(a, b) == a # <<>> /\ Head(a) > Head(b)

\* lexicographic a > b on tuples of integers of one length
RECURSIVE TupleGreater(_, _)
TupleGreater(a, b) ==
    IF a = <<>> THEN FALSE
    ELSE IF Head(a) # Head(b) THEN Head(a) > Head(b)
         ELSE TupleGreater(Tail(a), Tail(b))

\* list.sort(key=..., reverse=True) and sorted(..., reverse=True) on entries
\* [k |-> key, v |-> item]: descending by key, entries of equal keys in the
\* order they had
RECURSIVE InsertReverse(_, _)
InsertReverse(sorted, e) ==
    IF sorted = <<>> THEN <<e>>
    ELSE IF TupleGreater(e.k, Head(sorted).k) THEN <<e>> \o sorted
         ELSE <<Head(sorted)>> \o InsertReverse(Tail(sorted), e)

RECURSIVE SortReverseLoop(_, _)
SortReverseLoop(sorted, entries) ==
    IF entries = <<>> THEN sorted
    ELSE SortReverseLoop(InsertReverse(sorted, Head(entries)), Tail(entries))

SortedReverse(items, keys) ==
    LET entries == [i \in 1..Len(items) |-> [k |-> keys[i], v |-> items[i]]]
        sorted == SortReverseLoop(<<>>, entries)
    IN  [i \in 1..Len(sorted) |-> sorted[i].v]

RecentYear == 2020

UnknownYear == 2000

CitationNorm == 1000

\* paper_priority_score, times 10 * CitationNorm * max(len(query_words), 1).
\* A publication_date that is not a number (year 0 here) counts as UnknownYear.
PaperPriorityScore(paper, query) ==
    LET query_words == LowerWords(query)
        title_words == LowerWords(paper.title)
        qn == Max2(Cardinality(query_words), 1)
        year == IF paper.year = 0 THEN UnknownYear ELSE paper.year
    IN  3 * qn * Min2(paper.cit, CitationNorm)
          + 5 * CitationNorm * Cardinality(query_words \cap title_words)
          + (IF year >= RecentYear THEN 2 * CitationNorm * qn ELSE 0)

\* unique_papers.sort(key=paper_priority_score, reverse=True)
PreRanked(papers, query) ==
    SortedReverse(papers, [i \in 1..Len(papers) |-> <<PaperPriorityScore(papers[i], query)>>])

\* everything between the fan-out and the validation: deduplicate, pre-rank,
\* keep the first max_results
PapersToValidate(all, query, max_results) ==
    Take(PreRanked(AdvancedDeduplication(all), query), max_results)

MinRelevanceThreshold == Tenths(5)

MaxValidationRounds == 3

\* the papers of all_validated_papers with relevance_score >= 0.5
RECURSIVE HighQuality(_)
HighQuality(papers) ==
    IF papers = <<>> THEN <<>>
    ELSE IF Head(papers).relevance_score >= MinRelevanceThreshold
         THEN <<Head(papers)>> \o HighQuality(Tail(papers))
         ELSE HighQuality(Tail(papers))

RECURSIVE LowerQuality(_)
LowerQuality(papers) ==
    IF papers = <<>> THEN <<>>
    ELSE IF Head(papers).relevance_score < MinRelevanceThreshold
         THEN <<Head(papers)>> \o LowerQuality(Tail(papers))
         ELSE LowerQuality(Tail(papers))

\* the condition of the quality-assurance loop
QAContinues(validated, target, round, processed, to_validate) ==
    /\ Len(HighQuality(validated)) < target
    /\ round <= MaxValidationRounds
    /\ Cardinality(processed) < Len(to_validate)

\* papers_this_round
PapersThisRound(validated, target, round, processed, to_validate) ==
    LET needed_papers == target - Len(HighQuality(validated))
    IN  Min2(IF round = 1 THEN needed_papers * 2 ELSE needed_papers + 5,
             Len(to_validate) - Cardinality(processed))

\* a pick that does not note the titles it takes
RECURSIVE PickLoopForgetful(_, _, _)
PickLoopForgetful(st, papers, limit) ==
    IF papers = <<>> THEN st
    ELSE IF Len(st.picked) < limit
         THEN PickLoopForgetful([picked |-> Append(st.picked, Head(papers)),
                                 processed |-> st.processed], Tail(papers), limit)
         ELSE PickLoopForgetful(st, Tail(papers), limit)

\* the loop that picks papers_for_validation: st = [picked, processed]
RECURSIVE PickLoop(_, _, _)
PickLoop(st, papers, limit) ==
    IF papers = <<>> THEN st
    ELSE IF Head(papers).title \notin st.processed /\ Len(st.picked) < limit
         THEN PickLoop([picked |-> Append(st.picked, Head(papers)),
                        processed |-> st.processed \cup {Head(papers).title}],
                       Tail(papers), limit)
         ELSE PickLoop(st, Tail(papers), limit)

\* the scores of a validation result put on the paper
Scored(paper, score) ==
    [paper EXCEPT !.relevance_score = score.relevance_score,
                  !.confidence_score = score.confidence_score]

\* safe_sort_key
SafeSortKey(paper) == <<paper.relevance_score, paper.confidence_score, paper.cit>>

\* high_quality_papers after the fill-up, cut to the target: the list that
\* the final sorted() is given
FinalSelection(validated, target) ==
    LET high == HighQuality(validated)
        remaining_slots == Max2(0, target - Len(high))
        lower == LowerQuality(validated)
        lower_sorted == SortedReverse(lower, [i \in 1..Len(lower) |-> <<lower[i].relevance_score>>])
    IN  Take(IF remaining_slots > 0 THEN high \o Take(lower_sorted, remaining_slots) ELSE high,
             target)

\* sorted(high_quality_papers[:target], key=safe_sort_key, reverse=True)
FinalSorted(selection) ==
    SortedReverse(selection, [i \in 1..Len(selection) |-> SafeSortKey(selection[i])])

\* source_stats
NoStats == [attempted |-> 0, successful |-> 0, failed |-> 0, failed_sources |-> <<>>]

\* a loop over the sources that starts over when a source fails
DropAllOnFailure(all, outcome) ==
    IF outcome.kind = "papers" THEN all \o outcome.papers ELSE <<>>

\* what one pass of the loop over the sources does to all_papers, for the
\* outcome of the call: papers (possibly none), a timeout, an exception
ExtendAllPapers(all, outcome) ==
    IF outcome.kind = "papers" THEN all \o outcome.papers ELSE all

UpdateStats(stats, source, outcome) ==
    [attempted |-> stats.attempted,
     successful |-> stats.successful + (IF outcome.kind = "papers" /\ outcome.papers # <<>> THEN 1 ELSE 0),
     failed |-> stats.failed + (IF outcome.kind \in {"timeout", "error"} THEN 1 ELSE 0),
     failed_sources |-> IF outcome.kind \in {"timeout", "error"}
                        THEN Append(stats.failed_sources, <<source, outcome.kind>>)
                        ELSE stats.failed_sources]

-----------------------------------------------------------------------------
(* Validator harness *)

\* a citation count the adapters take over from the API unclamped, a small
\* one, and one large enough for the citation boost to reach its cap
ValCits == {0 - 1, 0, MaxCit, 200 * MaxCit}

ValPapers ==
    { [title |-> t, abstract |-> a, keywords |-> k, cit |-> c] :
        t \in {T6a, TS, TSd, TP},
        a \in {<<>>, <<<<8,"l">>, <<7,"l">>>>},
        k \in {<<>>, <<<<9,"l">>>>},
        c \in ValCits }

ValQueries == {<<>>, <<<<8,"l">>>>, <<<<8,"U">>, <<9,"l">>>>, <<<<7,"l">>, <<5,"l">>, <<9,"p">>>>}

LLMContents ==
    { <<<<"num", Tenths(8)>>>>,                                \* "0.8"
      <<<<"num", Tenths(2)>>>>,                                \* "0.2"
      <<<<"num", 8 * Unit>>>>,                                 \* "8"
      <<<<"txt">>, <<"num", Tenths(7)>>>>,                     \* "Score: 0.7"
      <<<<"txt">>, <<"num", 8 * Unit>>, <<"txt">>, <<"num", 10 * Unit>>>>,  \* "Score: 8/10"
      <<<<"-">>, <<"num", Tenths(5)>>>>,                       \* "-0.5"
      <<<<"nan">>>>,                                           \* "nan"
      <<<<"txt">>>>,                                           \* "not a number"
      <<>> }                                                   \* ""

LLMOutcomes ==
    {[kind |-> "response", content |-> c] : c \in LLMContents}
      \cup {[kind |-> "bad_content", content |-> <<>>],
            [kind |-> "error", content |-> <<>>],
            [kind |-> "timeout", content |-> <<>>]}

NoResult == [via |-> "none"]

EmptyFn == [x \in {} |-> 0]

NoIndex == [present |-> FALSE, rows |-> <<>>]

EmptyIndex == [present |-> TRUE, rows |-> <<>>]

AbsentIndexFile == [state |-> "absent", rows |-> <<>>]

AbsentMetaFile == [state |-> "absent", metadata |-> EmptyFn, paper_ids |-> <<>>]

NoCall == [op |-> "none", all_stored |-> FALSE]

StoreIdle ==
    /\ variant = "none"
    /\ proc = "off"
    /\ index = NoIndex
    /\ papers_metadata = EmptyFn
    /\ paper_ids = <<>>
    /\ disk_index = AbsentIndexFile
    /\ disk_meta = AbsentMetaFile
    /\ last_call = NoCall

SearchIdle ==
    /\ pc = "off"
    /\ s_query = <<>>
    /\ s_filters = DefaultFilters
    /\ search_filters = DefaultFilters
    /\ s_max_results = 0
    /\ in_flight = "none"
    /\ returned = <<>>
    /\ all_papers = <<>>
    /\ source_stats = NoStats
    /\ papers_to_validate = <<>>
    /\ processed_papers = {}
    /\ all_validated_papers = <<>>
    /\ validation_round = 1
    /\ llm_calls = 0
    /\ pre_sort = <<>>
    /\ result = <<>>
    /\ s_outcome = "running"

\* a part of the system that the specification being checked does not drive
\* stays idle
AugIdle ==
    /\ aug_pc = "off"
    /\ aug_in = <<>>
    /\ aug_out = <<>>

SimIdle ==
    /\ fs_pc = "off"
    /\ fs_selected = <<>>
    /\ fs_k = 0
    /\ fs_queries = <<>>
    /\ fs_all = <<>>
    /\ fs_probes = <<>>
    /\ fs_result = <<>>

InsIdle ==
    /\ ins_pc = <<>>
    /\ ins_papers = <<>>
    /\ ins_embeddings = <<>>
    /\ ins_paper_ids = <<>>
    /\ ins_metadata = {}
    /\ ins_rows = <<>>
    /\ ins_disk = <<>>

GemIdle ==
    /\ g_pc = <<>>
    /\ g_sem = 0
    /\ g_trace = <<>>

SessIdle ==
    /\ sess_pc = "off"
    /\ mock_found = <<>>
    /\ current_session_papers = <<>>
    /\ all_found_papers = <<>>
    /\ uuid_next = 0
    /\ sess_log = <<>>

DedupIdle ==
    /\ dd_pc = "off"
    /\ dd_in = <<>>
    /\ dd_out = <<>>
    /\ dd_out2 = <<>>

ValIdle ==
    /\ v_pc = "off"
    /\ v_paper = [title |-> <<>>, abstract |-> <<>>, keywords |-> <<>>, cit |-> 0]
    /\ v_query = <<>>
    /\ v_llm = [kind |-> "none", content |-> <<>>]
    /\ v_result = NoResult

ValInit ==
    /\ v_pc = "call"
    /\ v_paper \in ValPapers
    /\ v_query \in ValQueries
    /\ v_llm = [kind |-> "none", content |-> <<>>]
    /\ v_result = NoResult
    /\ DedupIdle
    /\ StoreIdle
    /\ SearchIdle
    /\ AugIdle
    /\ SessIdle
    /\ GemIdle
    /\ SimIdle
    /\ InsIdle

\* one call of validate_paper_async, with the LLM's outcome as its input
Validate ==
    /\ v_pc = "call"
    /\ \E llm \in LLMOutcomes :
        /\ v_llm' = llm
        /\ v_result' = ValidatePaper(v_paper, v_query, llm)
    /\ v_pc' = "returned"
    /\ UNCHANGED <<v_paper, v_query>>
    /\ UNCHANGED ddVars
    /\ UNCHANGED storeVars
    /\ UNCHANGED searchVars
    /\ UNCHANGED <<augVars, sessVars, gemVars, simVars, insVars>>

ValNext == Validate

SpecValidate == ValInit /\ [][ValNext]_vars

-----------------------------------------------------------------------------
(* Deduplicator harness: the inputs are paper lists over a pool of records *)

\* what the sources deliver, but for the citation count
PaperShapes ==
    { [title |-> T6a, doi |-> "",         url |-> "",           source |-> "crossref"],
      [title |-> T6b, doi |-> "",         url |-> "",           source |-> "openalex"],
      [title |-> T7,  doi |-> "",         url |-> "",           source |-> "arxiv"],
      [title |-> TS,  doi |-> "10.1/abc", url |-> "",           source |-> "crossref"],
      [title |-> TX,  doi |-> "10.1/ABC", url |-> "http://u/1", source |-> "openalex"],
      [title |-> TSd, doi |-> "",         url |-> "HTTP://U/1", source |-> "google_scholar_serpapi"],
      [title |-> TP,  doi |-> "",         url |-> "",           source |-> "arxiv"] }

PaperPool ==
    { [title |-> s.title, doi |-> s.doi, url |-> s.url, source |-> s.source, cit |-> c] :
        s \in PaperShapes, c \in 0..MaxCit }

DedupInit ==
    /\ dd_pc = "input"
    /\ dd_in \in SeqsUpTo(PaperPool, MaxInput)
    /\ dd_out = <<>>
    /\ dd_out2 = <<>>
    /\ ValIdle
    /\ StoreIdle
    /\ SearchIdle
    /\ AugIdle
    /\ SessIdle
    /\ GemIdle
    /\ SimIdle
    /\ InsIdle

\* dedup(X)
DedupOnce ==
    /\ dd_pc = "input"
    /\ dd_out' = AdvancedDeduplication(dd_in)
    /\ dd_pc' = "once"
    /\ UNCHANGED <<dd_in, dd_out2>>
    /\ UNCHANGED valVars
    /\ UNCHANGED storeVars
    /\ UNCHANGED searchVars
    /\ UNCHANGED <<augVars, sessVars, gemVars, simVars, insVars>>

\* dedup(dedup(X))
DedupTwice ==
    /\ dd_pc = "once"
    /\ dd_out2' = AdvancedDeduplication(dd_out)
    /\ dd_pc' = "twice"
    /\ UNCHANGED <<dd_in, dd_out>>
    /\ UNCHANGED valVars
    /\ UNCHANGED storeVars
    /\ UNCHANGED searchVars
    /\ UNCHANGED <<augVars, sessVars, gemVars, simVars, insVars>>

DedupNext == DedupOnce \/ DedupTwice

SpecDedup == DedupInit /\ [][DedupNext]_vars

-----------------------------------------------------------------------------
(* Vector store: FAISSVectorDatabase, EmbeddingAgent, SavePapers, upload *)

\* a store: the three fields of FAISSVectorDatabase
Store(ix, md, ids) == [index |-> ix, papers_metadata |-> md, paper_ids |-> ids]

\* _initialize_empty_database
InitializeEmptyDatabase == Store(EmptyIndex, EmptyFn, <<>>)

\* load_database of src/src/agents/embedding_agent.py, run by the constructor
\* on index = None, papers_metadata = {}, paper_ids = []
LoadDatabaseAgents(dI, dM) ==
    IF dI.state = "corrupt" THEN InitializeEmptyDatabase
    ELSE LET afterIndex ==
                 IF dI.state = "ok" THEN Store([present |-> TRUE, rows |-> dI.rows], EmptyFn, <<>>)
                 ELSE InitializeEmptyDatabase
         IN  IF dM.state = "corrupt" THEN InitializeEmptyDatabase
             ELSE IF dM.state = "ok"
                  THEN Store(afterIndex.index, dM.metadata, dM.paper_ids)
                  ELSE afterIndex

\* load_database of src/embedding_agent.py: no index file leaves index = None
LoadDatabaseRoot(dI, dM) ==
    IF dI.state = "corrupt" THEN InitializeEmptyDatabase
    ELSE LET afterIndex ==
                 IF dI.state = "ok" THEN Store([present |-> TRUE, rows |-> dI.rows], EmptyFn, <<>>)
                 ELSE Store(NoIndex, EmptyFn, <<>>)
         IN  IF dM.state = "corrupt" THEN InitializeEmptyDatabase
             ELSE IF dM.state = "ok"
                  THEN Store(afterIndex.index, dM.metadata, dM.paper_ids)
                  ELSE afterIndex

LoadDatabase(v, dI, dM) ==
    IF v = "agents" THEN LoadDatabaseAgents(dI, dM) ELSE LoadDatabaseRoot(dI, dM)

\* the outcomes of save_database: it writes the index file, then the metadata
\* file, each in place; either write may fail before it touched the file
\* ("clean") or part-way ("torn")
SaveFates == {"ok", "index_fail_clean", "index_fail_torn", "meta_fail_clean", "meta_fail_torn"}

\* the index file after save_database with this fate
SavedIndexFile(fate, st, dI) ==
    IF fate = "index_fail_clean" THEN dI
    ELSE IF fate = "index_fail_torn" THEN [state |-> "corrupt", rows |-> <<>>]
    ELSE [state |-> "ok", rows |-> st.index.rows]

\* the metadata file after save_database with this fate: an exception of the
\* index write leaves the try block before the metadata file is opened
SavedMetaFile(fate, st, dM) ==
    IF fate \in {"index_fail_clean", "index_fail_torn", "meta_fail_clean"} THEN dM
    ELSE IF fate = "meta_fail_torn"
         THEN [state |-> "corrupt", metadata |-> EmptyFn, paper_ids |-> <<>>]
    ELSE [state |-> "ok", metadata |-> st.papers_metadata, paper_ids |-> st.paper_ids]

\* the papers of a batch that the loop of add_papers_batch processes: a paper
\* whose processing raises before its metadata is stored is skipped.  (A
\* failed embedding call is no such case: generate_embedding returns the zero
\* vector, and the paper is stored like any other.)
RECURSIVE Processed(_)
Processed(dicts) ==
    IF dicts = <<>> THEN <<>>
    ELSE IF Head(dicts).skipped THEN Processed(Tail(dicts))
         ELSE <<Head(dicts)>> \o Processed(Tail(dicts))

\* the per-paper loop of add_papers_batch: the metadata entry is stored under
\* paper_id, the id appended to paper_ids
RECURSIVE AddLoop(_, _, _)
AddLoop(md, ids, dicts) ==
    IF dicts = <<>> THEN [md |-> md, ids |-> ids]
    ELSE LET d == Head(dicts)
             md1 == [k \in (DOMAIN md) \cup {d.paper_id} |->
                       IF k = d.paper_id THEN [doi |-> d.doi, paper_id |-> d.paper_id]
                       ELSE md[k]]
         IN  AddLoop(md1, Append(ids, d.paper_id), Tail(dicts))

\* the rows index.add appends: one per processed paper
NewRows(dicts) == [i \in 1..Len(dicts) |-> [paper_id |-> dicts[i].paper_id]]

\* whether add_papers_batch reaches index.add and save_database
Saves(st, dicts) == Processed(dicts) # <<>> /\ st.index.present

\* add_papers_batch in memory: metadata and paper_ids always, the index rows
\* only if a paper was processed and index is not None
AddPapersBatch(st, dicts) ==
    LET r == AddLoop(st.papers_metadata, st.paper_ids, Processed(dicts))
    IN  Store(IF Saves(st, dicts)
              THEN [present |-> TRUE, rows |-> st.index.rows \o NewRows(Processed(dicts))]
              ELSE st.index,
              r.md, r.ids)

\* check_duplicate_dois: the DOIs of the stored metadata
ExistingDois(md) == {md[k].doi : k \in DOMAIN md} \ {""}

\* the filter of process_paper_batch: drop a paper whose DOI is stored
RECURSIVE FilterStoredDois(_, _)
FilterStoredDois(dicts, existing) ==
    IF dicts = <<>> THEN <<>>
    ELSE IF Head(dicts).doi # "" /\ Head(dicts).doi \in existing
         THEN FilterStoredDois(Tail(dicts), existing)
         ELSE <<Head(dicts)>> \o FilterStoredDois(Tail(dicts), existing)

\* the dicts _paper_to_dict_safe makes for process_paper_batch: they carry the
\* Paper's own paper_id
DictsWithPaperId(papers, skips) ==
    [i \in 1..Len(papers) |-> [paper_id |-> papers[i].paper_id, doi |-> papers[i].doi, skipped |-> skips[i]]]

\* the dicts save_selected_papers makes: no paper_id key, so that
\* add_papers_batch draws a new uuid for each
DictsWithoutPaperId(papers, skips, fresh) ==
    [i \in 1..Len(papers) |-> [paper_id |-> fresh[i], doi |-> papers[i].doi, skipped |-> skips[i]]]

\* the dicts PDFParser makes for an upload: the id is a hash of the path, no DOI
DictsOfUploads(papers, skips) ==
    [i \in 1..Len(papers) |-> [paper_id |-> <<"uploaded", papers[i].paper_id[2]>>, doi |-> "", skipped |-> skips[i]]]

\* the Paper objects of a session (found by a search) and the PDF files a user
\* has: one paper with a DOI, one without
SessionPapers == { [paper_id |-> <<"paper", 1>>, doi |-> "10.1/abc"],
                   [paper_id |-> <<"paper", 2>>, doi |-> ""] }

Batches == SeqsUpTo(SessionPapers, MaxBatch) \ {<<>>}

\* the PDF file a user uploads, possibly more than once
UploadedPdfs == { [paper_id |-> <<"pdf", 1>>, doi |-> ""] }

UploadBatches == SeqsUpTo(UploadedPdfs, MaxBatch) \ {<<>>}

CurrentStore == Store(index, papers_metadata, paper_ids)

\* every paper id there is, in memory or in the files
IdsInUse ==
    (DOMAIN papers_metadata) \cup Range(paper_ids)
      \cup {index.rows[i].paper_id : i \in 1..Len(index.rows)}
      \cup (DOMAIN disk_meta.metadata) \cup Range(disk_meta.paper_ids)
      \cup {disk_index.rows[i].paper_id : i \in 1..Len(disk_index.rows)}

\* uuid4() returns an identifier that is not in use: the identifiers are
\* numbered, FreshUuids[i] is the i-th number that no identifier in use has
UuidNumbersInUse == {id[2] : id \in {x \in IdsInUse : x[1] = "uuid"}}

RECURSIVE NthFree(_, _, _)
NthFree(used, n, from) ==
    IF from \notin used
    THEN IF n = 1 THEN from ELSE NthFree(used, n - 1, from + 1)
    ELSE NthFree(used, n, from + 1)

FreshUuids == [i \in 1..MaxBatch |-> <<"uuid", NthFree(UuidNumbersInUse, i, 1)>>]

\* a new installation: no files, the store as its constructor leaves it
StoreInit ==
    /\ variant \in {"agents", "root"}
    /\ proc = "up"
    /\ index = LoadDatabase(variant, AbsentIndexFile, AbsentMetaFile).index
    /\ papers_metadata = EmptyFn
    /\ paper_ids = <<>>
    /\ disk_index = AbsentIndexFile
    /\ disk_meta = AbsentMetaFile
    /\ last_call = NoCall
    /\ DedupIdle
    /\ ValIdle
    /\ SearchIdle
    /\ AugIdle
    /\ SessIdle
    /\ GemIdle
    /\ SimIdle
    /\ InsIdle

\* every paper of the batch has a DOI, and that DOI is in stored
AllStored(papers, stored) ==
    \A i \in 1..Len(papers) : papers[i].doi # "" /\ papers[i].doi \in stored

\* add_papers_batch on dicts, save_database included; stops: the process
\* stops inside save_database instead of seeing its exception, and what it
\* held in memory is gone
AddAndSave(op, papers, dicts, fate, stops) ==
    LET st == AddPapersBatch(CurrentStore, dicts)
        saves == Saves(CurrentStore, dicts)
    IN  /\ Len(paper_ids) + Len(dicts) <= MaxRows
        /\ Len(index.rows) + Len(dicts) <= MaxRows
        /\ (~saves => fate = "ok" /\ ~stops)
        /\ (fate = "ok" => ~stops)
        /\ index' = IF stops THEN NoIndex ELSE st.index
        /\ papers_metadata' = IF stops THEN EmptyFn ELSE st.papers_metadata
        /\ paper_ids' = IF stops THEN <<>> ELSE st.paper_ids
        /\ disk_index' = IF saves THEN SavedIndexFile(fate, st, disk_index) ELSE disk_index
        /\ disk_meta' = IF saves THEN SavedMetaFile(fate, st, disk_meta) ELSE disk_meta
        /\ proc' = IF stops THEN "down" ELSE "up"
        /\ last_call' = [op |-> op,
                         all_stored |-> AllStored(papers, ExistingDois(papers_metadata))]

\* EmbeddingAgent.process_paper_batch
ProcessPaperBatch ==
    /\ proc = "up"
    /\ \E papers \in Batches, fate \in SaveFates, stops \in BOOLEAN :
       \E skips \in [1..Len(papers) -> BOOLEAN] :
          AddAndSave("process_paper_batch", papers,
                     FilterStoredDois(DictsWithPaperId(papers, skips),
                                      ExistingDois(papers_metadata)),
                     fate, stops)
    /\ UNCHANGED variant
    /\ UNCHANGED ddVars
    /\ UNCHANGED valVars
    /\ UNCHANGED searchVars
    /\ UNCHANGED <<augVars, sessVars, gemVars, simVars, insVars>>

\* EnhancedResearchPipeline.save_selected_papers
SaveSelectedPapers ==
    /\ proc = "up"
    /\ variant = "agents"
    /\ \E papers \in Batches, fate \in SaveFates, stops \in BOOLEAN :
       \E skips \in [1..Len(papers) -> BOOLEAN] :
          AddAndSave("save_selected_papers", papers,
                     DictsWithoutPaperId(papers, skips, FreshUuids), fate, stops)
    /\ UNCHANGED variant
    /\ UNCHANGED ddVars
    /\ UNCHANGED valVars
    /\ UNCHANGED searchVars
    /\ UNCHANGED <<augVars, sessVars, gemVars, simVars, insVars>>

\* process_uploaded_pdfs of the Gradio app
ProcessUploadedPdfs ==
    /\ proc = "up"
    /\ variant = "agents"
    /\ \E papers \in UploadBatches, fate \in SaveFates, stops \in BOOLEAN :
       \E skips \in [1..Len(papers) -> BOOLEAN] :
          AddAndSave("process_uploaded_pdfs", papers, DictsOfUploads(papers, skips), fate, stops)
    /\ UNCHANGED variant
    /\ UNCHANGED ddVars
    /\ UNCHANGED valVars
    /\ UNCHANGED searchVars
    /\ UNCHANGED <<augVars, sessVars, gemVars, simVars, insVars>>

\* the process starts (again): the constructor runs load_database
Restart ==
    /\ proc \in {"up", "down"}
    /\ LET st == LoadDatabase(variant, disk_index, disk_meta)
       IN  /\ index' = st.index
           /\ papers_metadata' = st.papers_metadata
           /\ paper_ids' = st.paper_ids
    /\ proc' = "up"
    /\ last_call' = [NoCall EXCEPT !.op = "load_database"]
    /\ UNCHANGED <<variant, disk_index, disk_meta>>
    /\ UNCHANGED ddVars
    /\ UNCHANGED valVars
    /\ UNCHANGED searchVars
    /\ UNCHANGED <<augVars, sessVars, gemVars, simVars, insVars>>

\* initialize_pipeline of the Gradio app: clean_database removes the two
\* files, each removal may fail, then a new pipeline loads the store
InitializePipeline ==
    /\ proc = "up"
    /\ variant = "agents"
    /\ \E rmIndex \in BOOLEAN, rmMeta \in BOOLEAN :
        LET dI == IF rmIndex THEN AbsentIndexFile ELSE disk_index
            dM == IF rmMeta THEN AbsentMetaFile ELSE disk_meta
            st == LoadDatabase(variant, dI, dM)
        IN  /\ disk_index' = dI
            /\ disk_meta' = dM
            /\ index' = st.index
            /\ papers_metadata' = st.papers_metadata
            /\ paper_ids' = st.paper_ids
    /\ last_call' = [NoCall EXCEPT !.op = "initialize_pipeline"]
    /\ UNCHANGED <<variant, proc>>
    /\ UNCHANGED ddVars
    /\ UNCHANGED valVars
    /\ UNCHANGED searchVars
    /\ UNCHANGED <<augVars, sessVars, gemVars, simVars, insVars>>

StoreNext ==
    \/ ProcessPaperBatch
    \/ SaveSelectedPapers
    \/ ProcessUploadedPdfs
    \/ Restart
    \/ InitializePipeline

SpecStore == StoreInit /\ [][StoreNext]_vars

\* get_database_stats()["total_papers"]
TotalPapers == Cardinality(DOMAIN papers_metadata)

\* index.ntotal (0 when there is no index)
IndexRows == Len(index.rows)

-----------------------------------------------------------------------------
(* Search: one request, from the call to the value search_papers returns *)

\* the queries "deep" and ""
SearchQueries == { <<<<8, "l">>>>, <<>> }

\* the filter dicts of the requests: none, a citation window, two required
\* keywords, an excluded keyword with a year range, and a year range that
\* SearchFilters rejects
SearchFilterSets ==
    { DefaultFilters,
      [DefaultFilters EXCEPT !.min_citations = 1, !.max_citations = MaxCit],
      [DefaultFilters EXCEPT !.keyword_requirements = {8, 9}],
      [DefaultFilters EXCEPT !.exclude_keywords = {7}, !.year_start = 2020, !.year_end = 2021],
      [DefaultFilters EXCEPT !.year_start = 2021, !.year_end = 2020] }

Item(title, abstract, year, cit, doi, url) ==
    [title |-> title, abstract |-> abstract, year |-> year, cit |-> cit,
     doi |-> doi, url |-> url]

\* the records each API may answer with; Crossref has one whose
\* "is-referenced-by-count" is negative, OpenAlex and arXiv have records
\* under the same title without a letter or a digit
ApiItems(source) ==
    CASE source = "google_scholar_serpapi" ->
            { Item(TS, <<>>, 2021, MaxCit + 1, "", "HTTP://U/1"),
              Item(T6a, <<<<8, "l">>>>, 2019, 0, "", "") }
      [] source = "crossref" ->
            { Item(TSd, <<<<7, "l">>>>, 2021, MaxCit, "10.1/abc", "http://u/1"),
              Item(T6b, <<<<8, "U">>>>, 2022, 0, "", ""),
              Item(TX, <<<<8, "l">>>>, 2021, 0 - 1, "10.1/neg", "") }
      [] source = "openalex" ->
            { Item(T7, <<<<8, "l">>, <<9, "l">>>>, 2018, MaxCit, "10.1/ABC", ""),
              Item(TX, <<>>, 2020, 0, "", ""),
              Item(TP, <<>>, 2022, 1, "", "http://u/2") }
      [] OTHER ->
            { Item(TP, <<<<8, "p">>>>, 0, 5, "", ""),
              Item(TP, <<>>, 2021, 0, "", "") }

\* what the call of one source gives search_papers_async: the papers of the
\* adapter for some response of the API or for a failed request, a timeout
\* of wait_for, an exception; net and requests record what the network did
\* and how many HTTP requests the call issued
SourceOutcomes(source, f, n) ==
    { [kind |-> "papers", papers |-> SearchSourceCall(source, "ok", items, f, n),
       net |-> "ok", requests |-> Requests(source, "ok")] :
        items \in SeqsUpTo(ApiItems(source), MaxApiItems) }
      \cup { [kind |-> "papers", papers |-> SearchSourceCall(source, net, <<>>, f, n),
               net |-> net, requests |-> Requests(source, net)] :
                net \in NetFates \ {"ok"} }
      \cup { [kind |-> "timeout", papers |-> <<>>, net |-> "ok", requests |-> 1],
               [kind |-> "error", papers |-> <<>>, net |-> "ok", requests |-> 1] }

\* the answers of the LLM during a search: "0.8", "0.2", no answer in time
SearchLLMOutcomes ==
    { [kind |-> "response", content |-> <<<<"num", Tenths(8)>>>>],
      [kind |-> "response", content |-> <<<<"num", Tenths(2)>>>>],
      [kind |-> "timeout", content |-> <<>>] }

Init ==
    /\ pc = "fanout"
    /\ s_query \in SearchQueries
    /\ s_filters \in SearchFilterSets
    /\ search_filters = ParseFilters(s_filters)
    /\ s_max_results \in 0..MaxResults
    /\ in_flight = "none"
    /\ returned = <<>>
    /\ all_papers = <<>>
    /\ source_stats = NoStats
    /\ papers_to_validate = <<>>
    /\ processed_papers = {}
    /\ all_validated_papers = <<>>
    /\ validation_round = 1
    /\ llm_calls = 0
    /\ pre_sort = <<>>
    /\ result = <<>>
    /\ s_outcome = "running"
    /\ DedupIdle
    /\ ValIdle
    /\ StoreIdle
    /\ AugIdle
    /\ SessIdle
    /\ GemIdle
    /\ SimIdle
    /\ InsIdle

\* the head of one pass of the loop over the sources: the pass of the next
\* source begins when the pass before it is over; it counts the source as
\* attempted and awaits wait_for(to_thread(search_func, ...), timeout=45.0)
StartSource ==
    /\ pc = "fanout"
    /\ in_flight = "none"
    /\ Len(returned) < Len(Sources)
    /\ in_flight' = Sources[Len(returned) + 1]
    /\ source_stats' = [source_stats EXCEPT !.attempted = @ + 1]
    /\ UNCHANGED <<pc, s_query, s_filters, search_filters, s_max_results, returned,
                   all_papers, papers_to_validate,
                   processed_papers, all_validated_papers, validation_round, llm_calls,
                   pre_sort, result, s_outcome>>
    /\ UNCHANGED <<ddVars, valVars, storeVars>>
    /\ UNCHANGED <<augVars, sessVars, gemVars, simVars, insVars>>

\* the rest of the pass: the awaited call is over
SearchSource ==
    /\ pc = "fanout"
    /\ in_flight # "none"
    /\ LET source == in_flight
       IN  \E o \in SourceOutcomes(source, search_filters, PapersPerSource(s_max_results)) :
              /\ returned' = Append(returned, o)
              /\ all_papers' = ExtendAllPapers(all_papers, o)
              /\ source_stats' = UpdateStats(source_stats, source, o)
    /\ in_flight' = "none"
    /\ UNCHANGED <<pc, s_query, s_filters, search_filters, s_max_results, papers_to_validate,
                   processed_papers, all_validated_papers, validation_round, llm_calls,
                   pre_sort, result, s_outcome>>
    /\ UNCHANGED <<ddVars, valVars, storeVars>>
    /\ UNCHANGED <<augVars, sessVars, gemVars, simVars, insVars>>

\* "if not all_papers: return []"
ReturnNoPapers ==
    /\ pc = "fanout"
    /\ Len(returned) = Len(Sources)
    /\ all_papers = <<>>
    /\ pc' = "done"
    /\ s_outcome' = "returned"
    /\ result' = <<>>
    /\ UNCHANGED <<s_query, s_filters, search_filters, s_max_results, in_flight, returned, all_papers,
                   source_stats, papers_to_validate, processed_papers,
                   all_validated_papers, validation_round, llm_calls, pre_sort>>
    /\ UNCHANGED <<ddVars, valVars, storeVars>>
    /\ UNCHANGED <<augVars, sessVars, gemVars, simVars, insVars>>

\* deduplication, pre-ranking, the cut to s_max_results, and the first
\* validation loop, which calls the validator once for every paper of
\* papers_to_validate and keeps none of its results
PreRank ==
    /\ pc = "fanout"
    /\ Len(returned) = Len(Sources)
    /\ all_papers # <<>>
    /\ papers_to_validate' = PapersToValidate(all_papers, s_query, s_max_results)
    /\ llm_calls' = llm_calls + Len(papers_to_validate')
    /\ pc' = "qa"
    /\ UNCHANGED <<s_query, s_filters, search_filters, s_max_results, in_flight, returned, all_papers,
                   source_stats, processed_papers, all_validated_papers,
                   validation_round, pre_sort, result, s_outcome>>
    /\ UNCHANGED <<ddVars, valVars, storeVars>>
    /\ UNCHANGED <<augVars, sessVars, gemVars, simVars, insVars>>

\* the papers a round of the quality-assurance loop picks
RoundPick ==
    PickLoop([picked |-> <<>>, processed |-> processed_papers], papers_to_validate,
             PapersThisRound(all_validated_papers, s_max_results, validation_round,
                             processed_papers, papers_to_validate))

LoopContinues ==
    QAContinues(all_validated_papers, s_max_results, validation_round,
                processed_papers, papers_to_validate)

\* one round of the quality-assurance loop
QARound ==
    /\ pc = "qa"
    /\ LoopContinues
    /\ RoundPick.picked # <<>>
    /\ LET picked == RoundPick.picked
       IN  \E llm \in [1..Len(picked) -> SearchLLMOutcomes] :
              all_validated_papers' = all_validated_papers \o
                  [i \in 1..Len(picked) |->
                      Scored(picked[i], ValidatePaper(picked[i], s_query, llm[i]))]
    /\ processed_papers' = RoundPick.processed
    /\ llm_calls' = llm_calls + Len(RoundPick.picked)
    /\ validation_round' = validation_round + 1
    /\ UNCHANGED <<pc, s_query, s_filters, search_filters, s_max_results, in_flight, returned, all_papers,
                   source_stats, papers_to_validate, pre_sort, result, s_outcome>>
    /\ UNCHANGED <<ddVars, valVars, storeVars>>
    /\ UNCHANGED <<augVars, sessVars, gemVars, simVars, insVars>>

\* after the loop: the final selection, the final sort, the session
\* statistics and the last log line.  update_session_stats may raise (it
\* runs only for a result that is not empty); the log line reads
\* avg_relevance, which is unbound when the result is empty.
Finalize ==
    /\ pc = "qa"
    /\ ~LoopContinues \/ RoundPick.picked = <<>>
    /\ pre_sort' = FinalSelection(all_validated_papers, s_max_results)
    /\ result' = FinalSorted(pre_sort')
    /\ \E db_ok \in BOOLEAN :
          s_outcome' = IF result' = <<>> THEN "raised_unbound_local"
                     ELSE IF db_ok THEN "returned" ELSE "raised_database"
    /\ pc' = "done"
    /\ UNCHANGED <<s_query, s_filters, search_filters, s_max_results, in_flight, returned, all_papers,
                   source_stats, papers_to_validate, processed_papers,
                   all_validated_papers, validation_round, llm_calls>>
    /\ UNCHANGED <<ddVars, valVars, storeVars>>
    /\ UNCHANGED <<augVars, sessVars, gemVars, simVars, insVars>>

Next ==
    \/ StartSource
    \/ SearchSource
    \/ ReturnNoPapers
    \/ PreRank
    \/ QARound
    \/ Finalize

Spec == Init /\ [][Next]_vars

\* what search_papers_async returned, if it returned
AsyncReturned == pc = "done" /\ s_outcome = "returned"

\* what search_papers returns: the list, or [] when search_papers_async raised
SearchPapers == IF s_outcome = "returned" THEN result ELSE <<>>

-----------------------------------------------------------------------------
(* Query augmenter: EnhancedResearchPipeline._generate_augmented_query *)

\* A query and an answer of the LLM are strings, modelled as sequences of
\* tokens: words, SP (a run of whitespace), DQ (") and SQ (').
SP == <<0, "sp">>
DQ == <<0, "dq">>
SQ == <<0, "sq">>

\* ' '.join(words)
RECURSIVE JoinWords(_)
JoinWords(words) ==
    IF words = <<>> THEN <<>>
    ELSE IF Len(words) = 1 THEN <<Head(words)>>
         ELSE <<Head(words), SP>> \o JoinWords(Tail(words))

\* the stems of stop_words ('model', 'paper', 'study', ...)
StopWordStems == {4}

\* the stems of the words shorter than four letters ('for', 'gpt', ...)
ShortStems == {7}

\* the words of an abstract that lie in abstract[:200]
PrefixWords200 == 2

\* abstract[:200]
AbstractPrefix(abstract) == Take(abstract, PrefixWords200)

\* titles and abstracts of _simple_keyword_extraction: the titles that are
\* not empty, and the prefixes of the abstracts that are not empty
RECURSIVE Titles(_)
Titles(selected) ==
    IF selected = <<>> THEN <<>>
    ELSE (IF Head(selected).title # <<>> THEN <<Head(selected).title>> ELSE <<>>)
             \o Titles(Tail(selected))

RECURSIVE Abstracts(_)
Abstracts(selected) ==
    IF selected = <<>> THEN <<>>
    ELSE (IF Head(selected).abstract # <<>>
          THEN <<AbstractPrefix(Head(selected).abstract)>> ELSE <<>>)
             \o Abstracts(Tail(selected))

\* all_text = ' '.join(titles + abstracts).lower(), as the words it holds
AllText(selected) ==
    LET text == Concat(Titles(selected) \o Abstracts(selected))
    IN  [i \in 1..Len(text) |-> LowerWord(text[i])]

\* re.findall(r'\b[a-zA-Z]{4,}\b', all_text): the stems of the words of four
\* letters and more, in the order of the text
RECURSIVE FindWords(_)
FindWords(text) ==
    IF text = <<>> THEN <<>>
    ELSE IF Head(text)[1] = 0 \/ Head(text)[1] \in ShortStems
         THEN FindWords(Tail(text))
         ELSE <<Head(text)[1]>> \o FindWords(Tail(text))

\* the keys of word_freq in insertion order: the words that are no stop
\* words, each at its first occurrence
RECURSIVE WordFreqKeys(_, _)
WordFreqKeys(words, seen) ==
    IF words = <<>> THEN <<>>
    ELSE IF Head(words) \in StopWordStems \/ Head(words) \in seen
         THEN WordFreqKeys(Tail(words), seen)
         ELSE <<Head(words)>> \o WordFreqKeys(Tail(words), seen \cup {Head(words)})

\* word_freq[word]
WordFreq(words, word) == Cardinality({i \in 1..Len(words) : words[i] = word})

\* how many of the most frequent terms are looked at, how many are used
TopTermsLimit == 5

KeyTermsLimit == 3

\* sorted(word_freq.items(), key=lambda x: x[1], reverse=True)[:5]
TopTerms(words) ==
    LET keys == WordFreqKeys(words, {})
    IN  Take(SortedReverse(keys, [i \in 1..Len(keys) |-> <<WordFreq(words, keys[i])>>]),
             TopTermsLimit)

\* every top term, whatever its frequency
KeyTermsAnyFrequency(words) == TopTerms(words)

\* key_terms = [term for term, freq in top_terms if freq > 1]
KeyTerms(words) ==
    LET IsFrequent(term) == WordFreq(words, term) > 1
    IN  SelectSeq(TopTerms(words), IsFrequent)

\* _simple_keyword_extraction(original_query, selected_papers)
SimpleKeywordExtraction(original_query, selected) ==
    LET key_terms == KeyTerms(FindWords(AllText(selected)))
        top3 == Take(key_terms, KeyTermsLimit)
    IN  IF key_terms # <<>>
        THEN original_query \o <<SP>> \o JoinWords([i \in 1..Len(top3) |-> <<top3[i], "l">>])
        ELSE original_query

\* the papers whose summaries go into the prompt
SummaryLimit == 5

\* paper_summaries: one for each of the first five papers that has a title
PaperSummaries(selected) ==
    LET HasTitle(paper) == paper.title # <<>>
    IN  SelectSeq(Take(selected, SummaryLimit), HasTitle)

\* str.strip() / str.strip(chars) for one token kind
RECURSIVE StripLeft(_, _)
StripLeft(text, tok) ==
    IF text # <<>> /\ Head(text) = tok THEN StripLeft(Tail(text), tok) ELSE text

RECURSIVE StripRight(_, _)
StripRight(text, tok) ==
    IF text # <<>> /\ text[Len(text)] = tok
    THEN StripRight(SubSeq(text, 1, Len(text) - 1), tok)
    ELSE text

Strip(text, tok) == StripRight(StripLeft(text, tok), tok)

\* response.text.strip().strip('"').strip("'")
StripQuotes(text) == Strip(Strip(Strip(text, SP), DQ), SQ)

\* len(augmented_query.split()): the maximal runs of tokens that are not
\* whitespace
TokenCount(text) ==
    Cardinality({i \in 1..Len(text) : text[i] # SP /\ (i = 1 \/ text[i - 1] = SP)})

\* the longest query taken from the LLM, in tokens
MaxQueryTokens == 20

\* "if not augmented_query or len(augmented_query.split()) > 20"
InvalidAugmentedQuery(augmented_query) ==
    augmented_query = <<>> \/ TokenCount(augmented_query) > MaxQueryTokens

\* _generate_augmented_query(original_query, selected_papers) when the LLM
\* layer behaves as llm says: kind "text" is an answer, "no_key" a missing
\* GEMINI_API_KEY, "raises" an exception of the import or of generate_content
GenerateAugmentedQuery(original_query, selected, llm) ==
    IF PaperSummaries(selected) = <<>> THEN original_query
    ELSE IF llm.kind # "text" THEN SimpleKeywordExtraction(original_query, selected)
    ELSE IF InvalidAugmentedQuery(StripQuotes(llm.text))
         THEN SimpleKeywordExtraction(original_query, selected)
    ELSE StripQuotes(llm.text)

-----------------------------------------------------------------------------
(* Augmenter harness: the inputs are queries, selections of papers, and *)
(* behaviours of the LLM layer *)

\* the queries "deep" and "deep learning"
AugmentQueries == { <<<<8, "l">>>>, <<<<8, "l">>, SP, <<9, "l">>>> }

AugPaper(title, abstract) == [title |-> title, abstract |-> abstract]

\* the papers a user may select: one whose title words come back in the
\* abstract prefix; one that repeats a stop word; one without a title; one
\* of six title words; one whose title word comes back behind the prefix
AugmentPapers ==
    { AugPaper(TS, <<<<8, "U">>, <<9, "p">>, <<7, "l">>, <<7, "l">>>>),
      AugPaper(<<<<4, "l">>, <<4, "U">>>>, <<>>),
      AugPaper(<<>>, <<<<1, "l">>, <<1, "l">>>>),
      AugPaper(T6a, <<>>),
      AugPaper(<<<<5, "l">>>>, <<<<6, "l">>, <<6, "l">>, <<5, "l">>>>) }

\* most papers in one selection
MaxSelected == 2

\* n times the word "deep"
Words(n) == JoinWords([i \in 1..n |-> <<8, "l">>])

\* what the LLM layer does: no API key, an exception, or an answer: "",
\* "deep learning" in double quotes, 'learning', "" "", " " in quotes,
\* " deep ", 20 words, 21 words, 21 words in quotes
AugmentLLMOutcomes ==
    { [kind |-> "no_key", text |-> <<>>],
      [kind |-> "raises", text |-> <<>>] }
      \cup { [kind |-> "text", text |-> t] :
                t \in { <<>>,
                        <<DQ, <<8, "l">>, SP, <<9, "l">>, DQ>>,
                        <<SQ, <<9, "l">>, SQ>>,
                        <<DQ, DQ>>,
                        <<DQ, SP, DQ>>,
                        <<SP, <<8, "l">>, SP>>,
                        Words(MaxQueryTokens),
                        Words(MaxQueryTokens + 1),
                        <<DQ>> \o Words(MaxQueryTokens + 1) \o <<DQ>> } }

AugInit ==
    /\ aug_pc = "input"
    /\ aug_in \in [original_query : AugmentQueries,
                   selected_papers : SeqsUpTo(AugmentPapers, MaxSelected),
                   llm : AugmentLLMOutcomes]
    /\ aug_out = <<>>
    /\ DedupIdle
    /\ ValIdle
    /\ StoreIdle
    /\ SearchIdle
    /\ SessIdle
    /\ GemIdle
    /\ SimIdle
    /\ InsIdle

\* augmented_query = self._generate_augmented_query(original_query, selected_papers)
Augment ==
    /\ aug_pc = "input"
    /\ aug_out' = GenerateAugmentedQuery(aug_in.original_query, aug_in.selected_papers,
                                         aug_in.llm)
    /\ aug_pc' = "done"
    /\ UNCHANGED aug_in
    /\ UNCHANGED <<ddVars, valVars, storeVars, searchVars, sessVars, gemVars, simVars, insVars>>

AugNext == Augment

SpecAugment == AugInit /\ [][AugNext]_vars

-----------------------------------------------------------------------------
(* Session: EnhancedResearchPipeline.execute_initial_search and *)
(* execute_secondary_search over a mocked search layer *)

\* most searches in one session
MaxCalls == 3

\* longest list the mocked search layer answers with
MaxFound == 2

SessQueries == AugmentQueries

\* PipelineConfig.RELEVANCE_THRESHOLD = 0.7
RelevanceThreshold == Tenths(7)

\* PipelineConfig.TOP_DISPLAY_RESULTS, SECONDARY_DISPLAY_RESULTS
TopDisplayResults == 10

SecondaryDisplayResults == 20

FoundRecord(title, abstract, doi, cit, relevance_score) ==
    [title |-> title, abstract |-> abstract, doi |-> doi, url |-> "", cit |-> cit,
     relevance_score |-> relevance_score]

\* the records the mocked search layer knows: two relevant ones, and one
\* below the relevance threshold
FoundPool ==
    { FoundRecord(TS, <<<<8, "l">>, <<9, "l">>>>, "10.1/abc", MaxCit, Tenths(8)),
      FoundRecord(TX, <<>>, "", 0, Tenths(8)),
      FoundRecord(T6a, <<>>, "", MaxCit, Tenths(5)) }

\* what search_papers may return: a list that holds no record twice
FoundLists ==
    {l \in SeqsUpTo(FoundPool, MaxFound) : \A i, j \in 1..Len(l) : i # j => l[i] # l[j]}

\* Paper.__post_init__: every Paper the search builds gets
\* paper_id = str(uuid.uuid4())[:8]; n values have been drawn before
NewPapers(found, n) ==
    [i \in 1..Len(found) |->
        [paper_id |-> n + i, title |-> found[i].title, abstract |-> found[i].abstract,
         doi |-> found[i].doi, url |-> found[i].url, cit |-> found[i].cit,
         relevance_score |-> found[i].relevance_score]]

\* _filter_relevant_papers(papers, threshold)
FilterRelevantPapers(papers, threshold) ==
    LET IsRelevant(paper) == paper.relevance_score >= threshold
    IN  SelectSeq(papers, IsRelevant)

\* _rank_papers_by_similarity(query, None, papers): the dicts of the papers,
\* sorted by (relevance_score + similarity_score, citation_count), reverse;
\* the papers carry no similarity_score, so that it is 0.0.  For an empty
\* list the other branch reads PipelineConfig.TOP_RESULTS, which does not
\* exist, and the except clause returns [].
RankPapersBySimilarity(papers) ==
    IF papers = <<>> THEN <<>>
    ELSE SortedReverse(papers,
             [i \in 1..Len(papers) |-> <<papers[i].relevance_score + 0, papers[i].cit>>])

\* selected_paper_indices of the requests
IndexLists == { <<0>>, <<0, 1>>, <<3>> }

\* [self.current_session_papers[i] for i in selected_paper_indices
\*  if i < len(self.current_session_papers)]
RECURSIVE SelectedPapers(_, _)
SelectedPapers(papers, indices) ==
    IF indices = <<>> THEN <<>>
    ELSE (IF Head(indices) < Len(papers) THEN <<papers[Head(indices) + 1]>> ELSE <<>>)
             \o SelectedPapers(papers, Tail(indices))

\* the LLM layer of the session: no API key, or the answer "deep learning"
\* in double quotes
SessLLMOutcomes ==
    { [kind |-> "no_key", text |-> <<>>],
      [kind |-> "text", text |-> <<DQ, <<8, "l">>, SP, <<9, "l">>, DQ>>] }

\* the answers of the mocked search layer to a query: always the same for
\* the queries of the requests, any list for another query
MockAnswers(query) ==
    IF query \in SessQueries THEN {mock_found[query]} ELSE FoundLists

LogEntry(op, query, top_papers) == [op |-> op, query |-> query, top_papers |-> top_papers]

SessInit ==
    /\ sess_pc = "up"
    /\ mock_found \in [SessQueries -> FoundLists]
    /\ current_session_papers = <<>>
    /\ all_found_papers = <<>>
    /\ uuid_next = 0
    /\ sess_log = <<>>
    /\ DedupIdle
    /\ ValIdle
    /\ StoreIdle
    /\ SearchIdle
    /\ AugIdle
    /\ GemIdle
    /\ SimIdle
    /\ InsIdle

\* execute_initial_search(query, filters, sources)
ExecuteInitialSearch ==
    /\ sess_pc = "up"
    /\ Len(sess_log) < MaxCalls
    /\ \E query \in SessQueries :
          LET found_papers == NewPapers(mock_found[query], uuid_next)
              relevant_papers == FilterRelevantPapers(found_papers, RelevanceThreshold)
              top_papers == Take(RankPapersBySimilarity(relevant_papers), TopDisplayResults)
          IN  /\ uuid_next' = uuid_next + Len(found_papers)
              /\ IF found_papers = <<>>
                 THEN /\ UNCHANGED <<current_session_papers, all_found_papers>>
                      /\ sess_log' = Append(sess_log, LogEntry("initial", query, <<>>))
                 ELSE /\ current_session_papers' = relevant_papers
                      /\ all_found_papers' = all_found_papers \o relevant_papers
                      /\ sess_log' = Append(sess_log, LogEntry("initial", query, top_papers))
    /\ UNCHANGED <<sess_pc, mock_found>>
    /\ UNCHANGED <<ddVars, valVars, storeVars, searchVars, augVars, gemVars, simVars, insVars>>

\* execute_secondary_search(selected_paper_indices, original_query, filters)
ExecuteSecondarySearch ==
    /\ sess_pc = "up"
    /\ Len(sess_log) < MaxCalls
    /\ \E indices \in IndexLists, original_query \in SessQueries, llm \in SessLLMOutcomes :
          LET selected_papers == SelectedPapers(current_session_papers, indices)
              augmented_query == GenerateAugmentedQuery(original_query, selected_papers, llm)
          IN  IF selected_papers = <<>>
              THEN /\ UNCHANGED <<current_session_papers, all_found_papers, uuid_next>>
                   /\ sess_log' = Append(sess_log, LogEntry("error", original_query, <<>>))
              ELSE \E answer \in MockAnswers(augmented_query) :
                      LET found_papers == NewPapers(answer, uuid_next)
                          relevant_papers ==
                              FilterRelevantPapers(found_papers, RelevanceThreshold)
                          combined_papers == selected_papers \o relevant_papers
                          ranked == RankPapersBySimilarity(combined_papers)
                          top_papers ==
                              Take(ranked, Min2(SecondaryDisplayResults, Len(ranked)))
                      IN  /\ uuid_next' = uuid_next + Len(found_papers)
                          /\ IF found_papers = <<>>
                             THEN /\ UNCHANGED <<current_session_papers, all_found_papers>>
                                  /\ sess_log' = Append(sess_log,
                                         LogEntry("secondary", augmented_query, <<>>))
                             ELSE /\ current_session_papers' =
                                         current_session_papers \o relevant_papers
                                  /\ all_found_papers' = all_found_papers \o relevant_papers
                                  /\ sess_log' = Append(sess_log,
                                         LogEntry("secondary", augmented_query, top_papers))
    /\ UNCHANGED <<sess_pc, mock_found>>
    /\ UNCHANGED <<ddVars, valVars, storeVars, searchVars, augVars, gemVars, simVars, insVars>>

SessNext ==
    \/ ExecuteInitialSearch
    \/ ExecuteSecondarySearch

SpecSession == SessInit /\ [][SessNext]_vars

-----------------------------------------------------------------------------
(* Rate limiting: concurrent calls of validate_paper_async that share *)
(* self.gemini_semaphore *)

\* the tasks that call validate_paper_async at the same time
MaxCallers == 4

Callers == 1..MaxCallers

\* asyncio.Semaphore(3)
SemaphoreSize == 3

\* a semaphore that blocks nobody
AcquiresAlways(sem) == TRUE

\* "async with semaphore" is entered when the value is positive
CanAcquire(sem) == sem > 0

GemInit ==
    /\ g_pc = [w \in Callers |-> "idle"]
    /\ g_sem = SemaphoreSize
    /\ g_trace = [w \in Callers |-> <<>>]
    /\ DedupIdle
    /\ ValIdle
    /\ StoreIdle
    /\ SearchIdle
    /\ AugIdle
    /\ SessIdle
    /\ SimIdle
    /\ InsIdle

\* "async with semaphore:" entered; the caller starts asyncio.sleep(7.0)
AcquireSlot(w) ==
    /\ g_pc[w] = "idle"
    /\ CanAcquire(g_sem)
    /\ g_sem' = g_sem - 1
    /\ g_pc' = [g_pc EXCEPT ![w] = "sleeping"]
    /\ g_trace' = [g_trace EXCEPT ![w] = Append(@, "acquire")]
    /\ UNCHANGED <<ddVars, valVars, storeVars, searchVars, augVars, sessVars, simVars, insVars>>

\* the sleep is over: "await asyncio.to_thread(self.llm.invoke, formatted_prompt)"
InvokeLLM(w) ==
    /\ g_pc[w] = "sleeping"
    /\ g_pc' = [g_pc EXCEPT ![w] = "calling"]
    /\ g_trace' = [g_trace EXCEPT ![w] = @ \o <<"sleep", "call">>]
    /\ UNCHANGED g_sem
    /\ UNCHANGED <<ddVars, valVars, storeVars, searchVars, augVars, sessVars, simVars, insVars>>

\* the LLM answered or raised: the score is parsed or the fallback is taken,
\* the function returns and the "async with" block releases the slot
ReturnScore(w) ==
    /\ g_pc[w] = "calling"
    /\ g_pc' = [g_pc EXCEPT ![w] = "returned"]
    /\ g_sem' = g_sem + 1
    /\ g_trace' = [g_trace EXCEPT ![w] = Append(@, "release")]
    /\ UNCHANGED <<ddVars, valVars, storeVars, searchVars, augVars, sessVars, simVars, insVars>>

GemNext ==
    \E w \in Callers :
        \/ AcquireSlot(w)
        \/ InvokeLLM(w)
        \/ ReturnScore(w)

SpecGemini == GemInit /\ [][GemNext]_vars

-----------------------------------------------------------------------------
(* Similar papers: GeminiLiteratureDiscoveryAgent.find_similar_papers_async *)

\* largest max_results of a call
MaxSimilarResults == 2
\* longest list a probe search returns
MaxProbeFound == 2

\* "for query in similarity_queries[:3]"
MaxSimilarityQueries == 3

\* the number of times x occurs in items
CountOf(items, x) == Cardinality({i \in 1..Len(items) : items[i] = x})

\* the elements of items, each once, in the order of their first occurrence
RECURSIVE FirstOccurrences(_)
FirstOccurrences(items) ==
    IF items = <<>> THEN <<>>
    ELSE LET IsOther(y) == y # Head(items)
         IN  <<Head(items)>> \o FirstOccurrences(SelectSeq(Tail(items), IsOther))

\* [x for x, count in Counter(items).most_common(n)]
MostCommon(items, n) ==
    LET elements == FirstOccurrences(items)
    IN  Take(SortedReverse(elements,
                 [i \in 1..Len(elements) |-> <<CountOf(items, elements[i])>>]), n)

\* similarity_queries: the keyword query, the category query, the queries
\* for the two most common authors
SimilarityQueries(selected) ==
    LET all_keywords == Concat([i \in 1..Len(selected) |-> selected[i].keywords])
        all_categories == Concat([i \in 1..Len(selected) |-> selected[i].categories])
        all_authors == Concat([i \in 1..Len(selected) |-> selected[i].authors])
        top_keywords == MostCommon(all_keywords, 8)
        top_categories == MostCommon(all_categories, 3)
        top_authors == MostCommon(all_authors, 5)
    IN  (IF top_keywords # <<>>
         THEN <<[kind |-> "keywords", terms |-> Take(top_keywords, 5)]>> ELSE <<>>)
        \o (IF top_categories # <<>>
            THEN <<[kind |-> "categories", terms |-> top_categories]>> ELSE <<>>)
        \o [i \in 1..Len(Take(top_authors, 2)) |->
               [kind |-> "author", terms |-> <<top_authors[i]>>]]

\* max_results // len(similarity_queries) + 2
ProbeShare(k, queries) == (k \div Len(queries)) + 2

\* [p for p in unique_similar if p.paper_id not in selected_ids]
NewSimilar(unique, selected) ==
    LET selected_ids == {selected[i].paper_id : i \in 1..Len(selected)}
        IsNew(paper) == paper.paper_id \notin selected_ids
    IN  SelectSeq(unique, IsNew)

\* the end of find_similar_papers_async: deduplication, the filter on
\* paper_id, the sort by (relevance, confidence), the cut
SimilarResult(found, selected, k) ==
    LET unique_similar == AdvancedDeduplication(found)
        new_similar == NewSimilar(unique_similar, selected)
        sorted == SortedReverse(new_similar,
                      [i \in 1..Len(new_similar) |->
                          <<new_similar[i].relevance_score, new_similar[i].confidence_score>>])
    IN  Take(sorted, k)

\* the papers of the harness: what a source knows of each
SimRecord(title, doi, url, source, cit, relevance_score) ==
    [title |-> title, doi |-> doi, url |-> url, source |-> source, cit |-> cit,
     relevance_score |-> relevance_score, confidence_score |-> Tenths(8)]

SimPool ==
    { SimRecord(TS, "10.1/abc", "", "crossref", 1, Tenths(8)),
      SimRecord(TX, "", "", "arxiv", 0, Tenths(6)),
      SimRecord(T6a, "", "http://u/1", "openalex", 0, Tenths(9)) }

\* the keywords, categories and authors the selected papers carry
SimDetails(title) ==
    IF title = TS THEN [keywords |-> <<8, 9>>, categories |-> <<>>, authors |-> <<"a1", "a2">>]
    ELSE IF title = TX THEN [keywords |-> <<8>>, categories |-> <<"c1">>, authors |-> <<"a1">>]
    ELSE [keywords |-> <<>>, categories |-> <<>>, authors |-> <<>>]

NoRepeat(l) == \A i, j \in 1..Len(l) : i # j => l[i] # l[j]

\* selected papers: Paper objects of an earlier search; their paper_id was
\* drawn by Paper.__post_init__ then
SelectedLists ==
    { [i \in 1..Len(l) |->
          [paper_id |-> <<"uuid", i>>, title |-> l[i].title, doi |-> l[i].doi,
           url |-> l[i].url, source |-> l[i].source, cit |-> l[i].cit,
           relevance_score |-> l[i].relevance_score,
           confidence_score |-> l[i].confidence_score,
           keywords |-> SimDetails(l[i].title).keywords,
           categories |-> SimDetails(l[i].title).categories,
           authors |-> SimDetails(l[i].title).authors]] :
        l \in {x \in SeqsUpTo(SimPool, MaxSelected) : NoRepeat(x)} }

\* the Paper objects an adapter builds for the records found: no paper_id is
\* passed, so that __post_init__ draws uuid4()[:8] for each; drawn is the
\* number of values drawn before
ProbePapers(found, drawn) ==
    [i \in 1..Len(found) |->
        [paper_id |-> <<"uuid", drawn + i>>, title |-> found[i].title, doi |-> found[i].doi,
         url |-> found[i].url, source |-> found[i].source, cit |-> found[i].cit,
         relevance_score |-> found[i].relevance_score,
         confidence_score |-> found[i].confidence_score]]

\* what search_papers_async(query, filters, n) may give: at most n papers,
\* or an exception
ProbeOutcomes(n) ==
    { [kind |-> "papers", found |-> l] :
        l \in {x \in SeqsUpTo(SimPool, Min2(n, MaxProbeFound)) : NoRepeat(x)} }
      \cup { [kind |-> "raised", found |-> <<>>] }

SimInit ==
    /\ fs_pc = "call"
    /\ fs_selected \in SelectedLists
    /\ fs_k \in 0..MaxSimilarResults
    /\ fs_queries = <<>>
    /\ fs_all = <<>>
    /\ fs_probes = <<>>
    /\ fs_result = <<>>
    /\ DedupIdle
    /\ ValIdle
    /\ StoreIdle
    /\ SearchIdle
    /\ AugIdle
    /\ SessIdle
    /\ GemIdle
    /\ InsIdle

\* the call up to the loop over the queries; "if not selected_papers: return []"
StartFindSimilar ==
    /\ fs_pc = "call"
    /\ IF fs_selected = <<>>
       THEN /\ fs_pc' = "done"
            /\ UNCHANGED fs_queries
       ELSE /\ fs_pc' = "probing"
            /\ fs_queries' = SimilarityQueries(fs_selected)
    /\ UNCHANGED <<fs_selected, fs_k, fs_all, fs_probes, fs_result>>
    /\ UNCHANGED <<ddVars, valVars, storeVars, searchVars, augVars, sessVars, gemVars, insVars>>

\* one pass of the loop: the probe search of the next query; an exception is
\* logged and the loop goes on
ProbeSearch ==
    /\ fs_pc = "probing"
    /\ Len(fs_probes) < Len(Take(fs_queries, MaxSimilarityQueries))
    /\ \E outcome \in ProbeOutcomes(ProbeShare(fs_k, fs_queries)) :
          /\ fs_probes' = Append(fs_probes, outcome)
          /\ fs_all' = fs_all \o ProbePapers(outcome.found, Len(fs_selected) + Len(fs_all))
    /\ UNCHANGED <<fs_pc, fs_selected, fs_k, fs_queries, fs_result>>
    /\ UNCHANGED <<ddVars, valVars, storeVars, searchVars, augVars, sessVars, gemVars, insVars>>

\* after the loop
ReturnSimilar ==
    /\ fs_pc = "probing"
    /\ Len(fs_probes) = Len(Take(fs_queries, MaxSimilarityQueries))
    /\ fs_result' = SimilarResult(fs_all, fs_selected, fs_k)
    /\ fs_pc' = "done"
    /\ UNCHANGED <<fs_selected, fs_k, fs_queries, fs_all, fs_probes>>
    /\ UNCHANGED <<ddVars, valVars, storeVars, searchVars, augVars, sessVars, gemVars, insVars>>

SimNext ==
    \/ StartFindSimilar
    \/ ProbeSearch
    \/ ReturnSimilar

SpecSimilar == SimInit /\ [][SimNext]_vars

-----------------------------------------------------------------------------
(* Concurrent inserts: two handlers of the Gradio app, each on its own *)
(* thread, in add_papers_batch of the same FAISSVectorDatabase.  The method *)
(* takes no lock. *)

\* the upload handler (process_uploaded_pdfs) and save_selected_papers
InsertCallers == {"upload", "save"}

\* longest batch of one caller
MaxInsertBatch == 2

\* the batches of a caller: its papers, named by their paper_id
InsertBatches(caller) ==
    { [i \in 1..n |-> <<caller, i>>] : n \in 1..MaxInsertBatch }

NothingSaved == [paper_ids |-> <<>>, rows |-> <<>>]

\* the store of a new installation, both callers at the start of their loop
InsInit ==
    /\ ins_pc = [caller \in InsertCallers |-> "loop"]
    /\ ins_papers \in [InsertCallers -> UNION {InsertBatches(caller) : caller \in InsertCallers}]
    /\ \A caller \in InsertCallers : ins_papers[caller] \in InsertBatches(caller)
    /\ ins_embeddings = [caller \in InsertCallers |-> <<>>]
    /\ ins_paper_ids = <<>>
    /\ ins_metadata = {}
    /\ ins_rows = <<>>
    /\ ins_disk = NothingSaved
    /\ DedupIdle
    /\ ValIdle
    /\ StoreIdle
    /\ SearchIdle
    /\ AugIdle
    /\ SessIdle
    /\ GemIdle
    /\ SimIdle

\* one pass of "for paper in papers": the embedding is generated, the
\* metadata stored, the id appended to self.paper_ids and the embedding to
\* the caller's embeddings_to_add; an exception skips the paper
ProcessPaper(caller) ==
    /\ ins_pc[caller] = "loop"
    /\ ins_papers[caller] # <<>>
    /\ LET paper_id == Head(ins_papers[caller])
       IN  \E raised \in BOOLEAN :
              IF raised
              THEN UNCHANGED <<ins_metadata, ins_paper_ids, ins_embeddings>>
              ELSE /\ ins_metadata' = ins_metadata \cup {paper_id}
                   /\ ins_paper_ids' = Append(ins_paper_ids, paper_id)
                   /\ ins_embeddings' = [ins_embeddings EXCEPT ![caller] = Append(@, paper_id)]
    /\ ins_papers' = [ins_papers EXCEPT ![caller] = Tail(@)]
    /\ UNCHANGED <<ins_pc, ins_rows, ins_disk>>
    /\ UNCHANGED <<ddVars, valVars, storeVars, searchVars, augVars, sessVars, gemVars, simVars>>

\* after the loop: self.index.add(embeddings_array) and save_database(),
\* which logs its exceptions; then the method returns
AddToIndex(caller) ==
    /\ ins_pc[caller] = "loop"
    /\ ins_papers[caller] = <<>>
    /\ IF ins_embeddings[caller] # <<>>
       THEN /\ ins_rows' = ins_rows \o ins_embeddings[caller]
            /\ \E saved \in BOOLEAN :
                  ins_disk' = IF saved
                              THEN [paper_ids |-> ins_paper_ids, rows |-> ins_rows']
                              ELSE ins_disk
       ELSE UNCHANGED <<ins_rows, ins_disk>>
    /\ ins_pc' = [ins_pc EXCEPT ![caller] = "done"]
    /\ UNCHANGED <<ins_papers, ins_embeddings, ins_paper_ids, ins_metadata>>
    /\ UNCHANGED <<ddVars, valVars, storeVars, searchVars, augVars, sessVars, gemVars, simVars>>

InsNext ==
    \E caller \in InsertCallers :
        \/ ProcessPaper(caller)
        \/ AddToIndex(caller)

SpecInsert == InsInit /\ [][InsNext]_vars

-----------------------------------------------------------------------------
(* Claims *)

\* C2: the list returned by the deduplicator never holds two papers that are
\* duplicates under section 4.2 (same DOI, same URL, or title Jaccard >= 0.85).
C2_DedupOutputHasNoDuplicates ==
    dd_pc # "input" => NoDuplicates(dd_out)

\* C10: deduplication is idempotent: dedup(dedup(X)) = dedup(X), same papers in
\* the same order.
C10_DedupIdempotent ==
    dd_pc = "twice" => dd_out2 = dd_out

\* C5: validate_paper_async never propagates an exception: whatever the LLM
\* does (a number, text, a transport error, a timeout) it returns a
\* RelevanceScore with both scores in [0,1] and reasoning, key_matches and
\* concerns populated, and an answer that holds no number in [0,1] is scored by
\* the fallback scorer.
HoldsScoreInRange(llm) ==
    /\ llm.kind = "response"
    /\ \E i \in 1..Len(llm.content) :
          /\ llm.content[i][1] = "num"
          /\ llm.content[i][2] <= Unit

C5_ValidateAlwaysReturnsScore ==
    v_pc = "returned" =>
        /\ v_result.via \in {"parsed", "fallback", "emergency"}
        /\ 0 <= v_result.relevance_score /\ v_result.relevance_score <= Unit
        /\ 0 <= v_result.confidence_score /\ v_result.confidence_score <= Unit
        /\ {"reasoning", "key_matches", "concerns"} \subseteq DOMAIN v_result
        /\ v_result.reasoning # ""
        /\ (~HoldsScoreInRange(v_llm) => v_result.via \in {"fallback", "emergency"})
        /\ (v_result.via = "parsed" =>
              \E i \in 1..Len(v_llm.content) :
                  /\ v_llm.content[i][1] = "num"
                  /\ v_llm.content[i][2] = v_result.relevance_score)

\* a timeout of the LLM call scored by the fallback formula, and a paper whose
\* fallback score is out of range scored by the emergency default
C5_Witness ==
    /\ v_pc = "returned"
    /\ v_llm.kind = "timeout"
    /\ v_result.via = "emergency"
    /\ v_paper.cit < 0

\* C1: the list search_papers_async returns, and the list search_papers
\* returns, has at most max_results papers.
C1_ResultAtMostMaxResults ==
    pc = "done" => /\ (s_outcome = "returned" => Len(result) <= s_max_results)
                   /\ Len(SearchPapers) <= s_max_results

\* a request that found more distinct papers than it may return
C1_Witness ==
    /\ AsyncReturned
    /\ s_max_results >= 1
    /\ Len(result) = s_max_results
    /\ Len(AdvancedDeduplication(all_papers)) > s_max_results

\* p stands at or before q in the order (relevance, confidence, citations),
\* largest first
KeyAtLeast(p, q) ==
    \/ p.relevance_score > q.relevance_score
    \/ /\ p.relevance_score = q.relevance_score
       /\ \/ p.confidence_score > q.confidence_score
          \/ /\ p.confidence_score = q.confidence_score
             /\ p.cit >= q.cit

SameKey(p, q) == KeyAtLeast(p, q) /\ KeyAtLeast(q, p)

\* the papers of ps that have the key of p, in their order in ps
WithKeyOf(ps, p) ==
    LET Test(q) == SameKey(p, q)
    IN  SelectSeq(ps, Test)

\* C3: the list Search returns is sorted non-increasing by (relevance_score,
\* confidence_score, citation_count), and the papers of equal triples stand
\* in the order they had before the final sort.
C3_ResultSortedStable ==
    pc = "done" =>
        /\ \A i, j \in 1..Len(result) : i < j => KeyAtLeast(result[i], result[j])
        /\ Len(result) = Len(pre_sort)
        /\ \A i \in 1..Len(pre_sort) :
              WithKeyOf(result, pre_sort[i]) = WithKeyOf(pre_sort, pre_sort[i])

\* a result the final sort had to reorder, with two different papers of one
\* triple in it
C3_Witness ==
    /\ AsyncReturned
    /\ result # pre_sort
    /\ \E i, j \in 1..Len(result) :
          i < j /\ SameKey(result[i], result[j]) /\ result[i] # result[j]

\* the hard filters of a SearchFilters on a paper (a paper of unknown year,
\* year 0, is let through)
SatisfiesFilters(p, f) ==
    /\ (f.year_start # None /\ p.year # 0) => p.year >= f.year_start
    /\ (f.year_end # None /\ p.year # 0) => p.year <= f.year_end
    /\ p.cit >= f.min_citations
    /\ f.max_citations # None => p.cit <= f.max_citations
    /\ \A req \in f.keyword_requirements : ContainsTerm(p.title \o p.abstract, req)
    /\ \A excl \in f.exclude_keywords : ~ContainsTerm(p.title \o p.abstract, excl)

\* C4: every paper of the list Search returns satisfies every hard filter of
\* the SearchFilters of the request.
C4_ResultSatisfiesFilters ==
    AsyncReturned => \A i \in 1..Len(result) : SatisfiesFilters(result[i], search_filters)

\* the papers of the sources that answered, in the order of the sources
RECURSIVE MergedOf(_)
MergedOf(outcomes) ==
    IF outcomes = <<>> THEN <<>>
    ELSE (IF Head(outcomes).kind = "papers" THEN Head(outcomes).papers ELSE <<>>)
           \o MergedOf(Tail(outcomes))

\* the number of papers the sources that answered produce by themselves: the
\* candidates of their merged papers, counted by title
AloneCount ==
    Cardinality({p.title : p \in Range(PapersToValidate(MergedOf(returned), s_query, s_max_results))})

\* C9: a source that times out or raises is dropped and the request goes on:
\* all_papers holds the papers of every source that answered, and the result
\* has as many papers as those sources produce by themselves.
C9_FailedSourceIsDropped ==
    /\ all_papers = MergedOf(returned)
    /\ pc # "fanout" => Len(returned) = Len(Sources)
    /\ AsyncReturned => Len(result) = AloneCount

\* a request with a source that timed out and one that raised between two
\* sources that answered, and a result
C9_Witness ==
    /\ AsyncReturned
    /\ result # <<>>
    /\ returned[1].kind = "papers" /\ returned[1].papers # <<>>
    /\ returned[2].kind = "timeout"
    /\ returned[3].kind = "error"
    /\ returned[4].kind = "papers" /\ returned[4].papers # <<>>
    /\ Len(all_papers) = 2

\* C6: in every state of a running vector store, the index row count, the
\* length of paper_ids and the size of the metadata map are equal.
C6_StoreCountsAgree ==
    proc = "up" => /\ IndexRows = Len(paper_ids)
                   /\ Len(paper_ids) = TotalPapers

\* the call inserted papers whose DOIs were all stored already, and returned
SecondInsertOfStoredDois(call) ==
    /\ call.op \in {"process_paper_batch", "save_selected_papers"}
    /\ call.all_stored

\* C7: an insert (process_paper_batch or save_selected_papers) of papers whose
\* DOIs are all stored already leaves total_papers and the index row count
\* unchanged, so that a DOI keeps one metadata entry and one index row.
C7_SecondInsertChangesNothing ==
    [][SecondInsertOfStoredDois(last_call') /\ proc' = "up"
         => /\ Cardinality(DOMAIN papers_metadata') = Cardinality(DOMAIN papers_metadata)
            /\ Len(index'.rows) = Len(index.rows)]_vars

\* the paper ids the index file holds, row by row
DiskIndexIds == [i \in 1..Len(disk_index.rows) |-> disk_index.rows[i].paper_id]

\* C8: whatever happens during save_database, the index file and the metadata
\* file describe the same papers: both absent, or both readable with the
\* rows of the one matching the paper_ids of the other.
C8_DiskFilesAgree ==
    \/ disk_index.state = "absent" /\ disk_meta.state = "absent"
    \/ /\ disk_index.state = "ok"
       /\ disk_meta.state = "ok"
       /\ DiskIndexIds = disk_meta.paper_ids

\* the paper that survives when q, seen after p, is a duplicate of p: the
\* one with more citations; on equal citations the one that is not from
\* arXiv; on a further tie the earlier one
Winner(p, q) ==
    IF q.cit > p.cit THEN q
    ELSE IF q.cit = p.cit /\ p.source = "arxiv" /\ q.source # "arxiv" THEN q
    ELSE p

\* C11: when the deduplicator is given two papers that are duplicates by
\* DOI, URL or similar title, what it returns is the winner alone: more
\* citations, then non-arXiv over arXiv, then the earlier paper.
C11_WinnerSurvives ==
    (dd_pc # "input" /\ Len(dd_in) = 2 /\ IsDuplicate(dd_in[1], dd_in[2]))
        => dd_out = <<Winner(dd_in[1], dd_in[2])>>

\* C12: a request whose filters have year_end < year_start is rejected before
\* any network call: no source is ever called for it.
C12_BadYearRangeCallsNoSource ==
    (s_filters.year_start # None /\ s_filters.year_end # None
       /\ s_filters.year_end < s_filters.year_start)
        => source_stats.attempted = 0

\* C13: a request with an empty query calls no source and returns the empty
\* list.
C13_EmptyQueryCallsNoSource ==
    (pc # "off" /\ s_query = <<>>)
        => /\ source_stats.attempted = 0
           /\ pc = "done" => (s_outcome = "returned" /\ result = <<>>)

\* C14: a request with max_results = 0 ends by returning the empty list, not
\* in an error, and calls the validator not once.
C14_ZeroMaxResultsReturnsEmpty ==
    (pc # "off" /\ s_max_results = 0)
        => /\ llm_calls = 0
           /\ pc = "done" => (s_outcome = "returned" /\ result = <<>>)

\* C20: in one request a candidate is validated at most once, so the number
\* of validator calls is at most the number of candidates.
C20_AtMostOneValidationPerCandidate ==
    llm_calls <= Len(papers_to_validate)

\* C17: every paper of a returned result has relevance_score and
\* confidence_score in [0, 1] and citation_count >= 0, whatever the sources
\* answered and whatever the LLM said.
C17_ReturnedPapersInRange ==
    AsyncReturned =>
        \A i \in 1..Len(result) :
            /\ 0 <= result[i].relevance_score /\ result[i].relevance_score <= Unit
            /\ 0 <= result[i].confidence_score /\ result[i].confidence_score <= Unit
            /\ result[i].cit >= 0

\* the score part of C17 alone
C17_ReturnedScoresInRange ==
    AsyncReturned =>
        \A i \in 1..Len(result) :
            /\ 0 <= result[i].relevance_score /\ result[i].relevance_score <= Unit
            /\ 0 <= result[i].confidence_score /\ result[i].confidence_score <= Unit

\* C16: a source call whose request fails transiently re-issues the request
\* (at most 3 attempts in all); one whose request fails permanently does not.
C16_TransientFailureIsRetried ==
    \A i \in 1..Len(returned) :
        /\ returned[i].net = "transient"
              => (2 <= returned[i].requests /\ returned[i].requests <= 3)
        /\ returned[i].net = "permanent" => returned[i].requests = 1

\* the occurrences of a term in the titles and the abstract prefixes of the
\* selected papers
Occurrences(term, selected) ==
    Cardinality({<<k, i>> \in (1..Len(selected)) \X (1..6) :
                    i <= Len(selected[k].title) /\ selected[k].title[i][1] = term})
    + Cardinality({<<k, i>> \in (1..Len(selected)) \X (1..PrefixWords200) :
                    /\ i <= Len(selected[k].abstract)
                    /\ selected[k].abstract[i][1] = term})

\* the query is an accepted answer of the LLM
IsLLMQuery(query, in) ==
    /\ in.llm.kind = "text"
    /\ query = StripQuotes(in.llm.text)
    /\ query # <<>>
    /\ TokenCount(query) <= 20

\* the query is the original query, followed by at most three terms that
\* each occur more than once
IsFallbackQuery(query, in) ==
    \E terms \in SeqsUpTo(1..9, 3) :
        /\ \A i \in 1..Len(terms) : Occurrences(terms[i], in.selected_papers) > 1
        /\ query = IF terms = <<>> THEN in.original_query
                   ELSE in.original_query \o <<SP>>
                            \o JoinWords([i \in 1..Len(terms) |-> <<terms[i], "l">>])

\* C19: Augment returns (it never raises), and what it returns is either an
\* answer of the LLM that is non-empty and of at most 20 tokens after the
\* surrounding quotes are stripped, or the original query followed by at most
\* 3 terms that each occur more than once in the selected titles and abstract
\* prefixes; it is exactly the original query when no term occurs twice and
\* the answer of the LLM is not taken.
C19_AugmentReturnsValidQuery ==
    aug_pc = "done" =>
        /\ IsLLMQuery(aug_out, aug_in) \/ IsFallbackQuery(aug_out, aug_in)
        /\ (~IsLLMQuery(aug_out, aug_in)
              /\ \A term \in 1..9 : Occurrences(term, aug_in.selected_papers) <= 1)
                => aug_out = aug_in.original_query

\* a call whose LLM answer of 21 words is rejected and whose fallback adds
\* three terms
C19_Witness ==
    /\ aug_pc = "done"
    /\ aug_in.llm = [kind |-> "text", text |-> Words(21)]
    /\ aug_out = aug_in.original_query
                    \o <<SP, <<1, "l">>, SP, <<2, "l">>, SP, <<3, "l">>>>

\* C18: after any sequence of InitialSearch and SecondarySearch calls,
\* all_found_papers holds no paper twice.
C18_AllFoundPapersDeduplicated == NoDuplicates(all_found_papers)

\* a list of result dicts without their paper_id
WithoutPaperIds(top_papers) ==
    [i \in 1..Len(top_papers) |->
        [title |-> top_papers[i].title, abstract |-> top_papers[i].abstract,
         doi |-> top_papers[i].doi, url |-> top_papers[i].url, cit |-> top_papers[i].cit,
         relevance_score |-> top_papers[i].relevance_score]]

\* C15: two InitialSearch calls of one session with the same query (filters
\* and sources are the same throughout) over the deterministic mocked layers
\* return the same ordered list of papers.
C15_InitialSearchDeterministic ==
    \A i, j \in 1..Len(sess_log) :
        (sess_log[i].op = "initial" /\ sess_log[j].op = "initial"
           /\ sess_log[i].query = sess_log[j].query)
            => sess_log[i].top_papers = sess_log[j].top_papers

\* C15 without the paper_id of the papers: the same papers in the same order
C15_SameUpToPaperId ==
    \A i, j \in 1..Len(sess_log) :
        (sess_log[i].op = "initial" /\ sess_log[j].op = "initial"
           /\ sess_log[i].query = sess_log[j].query)
            => WithoutPaperIds(sess_log[i].top_papers)
                   = WithoutPaperIds(sess_log[j].top_papers)

\* a validated paper as it was when it was a candidate
WithoutScores(paper) ==
    [paper EXCEPT !.relevance_score = 0, !.confidence_score = 0]

\* the candidates that no round has validated yet
UnvalidatedCandidates ==
    {i \in 1..Len(papers_to_validate) :
        \A j \in 1..Len(all_validated_papers) :
            WithoutScores(all_validated_papers[j]) # papers_to_validate[i]}

\* C21: the quality-assurance loop runs at most 3 rounds, and it runs no
\* round once max_results validated papers have relevance_score >= 0.5, or
\* no unvalidated candidate is left, or 3 rounds are done.
C21_QALoopStops ==
    [][QARound =>
          /\ validation_round <= 3
          /\ Len(HighQuality(all_validated_papers)) < s_max_results
          /\ UnvalidatedCandidates # {}]_vars

\* the loop has run and stopped for want of candidates, short of max_results
\* papers of relevance_score >= 0.5
C21_Witness ==
    /\ pc = "done"
    /\ validation_round = 2
    /\ Len(HighQuality(all_validated_papers)) < s_max_results
    /\ UnvalidatedCandidates = {}
    /\ Len(all_validated_papers) = 2

\* C22: a source whose request is in flight does not delay the start of the
\* request to the next source: that request can start while the first one
\* is awaited.
C22_SlowSourceDelaysNoStart ==
    (pc = "fanout" /\ in_flight # "none" /\ Len(returned) + 1 < Len(Sources))
        => ENABLED StartSource

\* the callers whose LLM call is in flight
InFlight == {w \in Callers : g_pc[w] = "calling"}

\* C23: at most 3 LLM validation calls are in flight at any moment, and a
\* caller issues its call only after it acquired its slot and, after that,
\* slept.
C23_AtMostThreeCallsPaced ==
    /\ Cardinality(InFlight) <= 3
    /\ \A w \in InFlight : g_trace[w] = <<"acquire", "sleep", "call">>

\* three calls in flight and a fourth caller kept waiting
C23_Witness ==
    /\ Cardinality(InFlight) = 3
    /\ \E w \in Callers : g_pc[w] = "idle"

\* a number brought into [0, 1]
Clamped(v) == Max2(0, Min2(v, Unit))

\* the content holds an unsigned number and neither a minus sign nor "nan"
HoldsPlainNumber(llm) ==
    /\ llm.kind = "response"
    /\ \E i \in 1..Len(llm.content) : llm.content[i][1] = "num"
    /\ \A i \in 1..Len(llm.content) : llm.content[i][1] \in {"num", "txt"}

\* C25: an answer of the LLM that holds a number is never a parsing failure:
\* the relevance is the first number of the content, clamped to [0, 1]
\* ("8" and "Score: 8/10" give 1.0); only content without a number is a
\* parsing failure.
C25_NumberIsClampedNotRejected ==
    v_pc = "returned" =>
        /\ HoldsPlainNumber(v_llm) =>
              /\ v_result.via = "parsed"
              /\ v_result.relevance_score = Clamped(FirstNumber(v_llm.content).val)
        /\ (v_llm.kind = "response" /\ FirstNumber(v_llm.content) = NoScore)
              => v_result.via # "parsed"

\* C24: a source whose request failed, or whose call timed out, is in
\* failed_sources, and once the fan-out is over every attempted source is
\* counted as successful or as failed.
C24_FailedSourceIsCounted ==
    /\ \A i \in 1..Len(returned) :
          (returned[i].net # "ok" \/ returned[i].kind = "timeout")
              => \E j \in 1..Len(source_stats.failed_sources) :
                    source_stats.failed_sources[j][1] = Sources[i]
    /\ (Len(returned) = Len(Sources))
          => source_stats.attempted = source_stats.successful + source_stats.failed

\* C26: every record an adapter keeps holds all of the keyword_requirements
\* of the filters in its title and abstract, and none of the
\* exclude_keywords.
C26_AdapterKeepsAllKeywordsOnly ==
    \A i \in 1..Len(returned) :
        \A k \in 1..Len(returned[i].papers) :
            LET paper == returned[i].papers[k]
                full_text == paper.title \o paper.abstract
            IN  /\ \A req \in search_filters.keyword_requirements :
                      ContainsTerm(full_text, req)
                /\ \A excl \in search_filters.exclude_keywords :
                      ~ContainsTerm(full_text, excl)

\* C30: the candidate set holds at most max_results papers; every candidate
\* is validated in round 1, no later round issues a validation call, and the
\* final list is exactly the candidates, each with the scores of round 1.
C30_RoundOneValidatesAll ==
    /\ Len(papers_to_validate) <= s_max_results
    /\ pc = "qa" /\ validation_round > 1 =>
          /\ ~ENABLED QARound
          /\ UnvalidatedCandidates = {}
          /\ Len(all_validated_papers) = Len(papers_to_validate)
    /\ pc = "done" =>
          /\ Len(result) = Len(papers_to_validate)
          /\ {WithoutScores(result[i]) : i \in 1..Len(result)} =
                {papers_to_validate[i] : i \in 1..Len(papers_to_validate)}
          /\ \A i \in 1..Len(result) :
                \E j \in 1..Len(all_validated_papers) : result[i] = all_validated_papers[j]

\* C29: after a search of the session has returned its top_papers, index i
\* of current_session_papers holds the same paper as index i of that list,
\* so that the indices of a later request select the papers that were shown.
C29_IndicesSelectShownPapers ==
    sess_log # <<>> =>
        LET top_papers == sess_log[Len(sess_log)].top_papers
        IN  \A i \in 1..Len(top_papers) :
                /\ i <= Len(current_session_papers)
                /\ current_session_papers[i].paper_id = top_papers[i].paper_id
                /\ SelectedPapers(current_session_papers, <<i - 1>>) = <<top_papers[i]>>

\* the same paper: the same title, DOI and URL
SamePaperAs(p, q) == p.title = q.title /\ p.doi = q.doi /\ p.url = q.url

\* C27: find_similar_papers_async(selected_papers, k) returns at most k
\* papers, and none of them is one of the selected papers.
C27_SimilarAreNewAndAtMostK ==
    fs_pc = "done" =>
        /\ Len(fs_result) <= fs_k
        /\ \A i \in 1..Len(fs_result) : \A j \in 1..Len(fs_selected) :
              ~SamePaperAs(fs_result[i], fs_selected[j])

\* C28: whatever the interleaving of two callers' insert batches, paper_ids[i]
\* names the paper whose embedding is row i of the index, for every row.
C28_RowsMatchPaperIds ==
    \A i \in 1..Len(ins_rows) :
        /\ i <= Len(ins_paper_ids)
        /\ ins_paper_ids[i] = ins_rows[i]

====
